---- MODULE Spec2Model ----
(***************************************************************************)
(* Model of the TradingView streaming pipeline of src/live_chart_app.py    *)
(* (and its sibling src/main.py): frame codec, candle aggregator,          *)
(* SSE distribution hub, snapshot endpoints and the reconnect loop.        *)
(*                                                                         *)
(* Python values are modelled as follows.  Strings that the code slices    *)
(* (wire messages) are sequences of one-character strings.  Candle dicts   *)
(* are objects with identity: heap[id] is the dict, candle_window and      *)
(* current_candle hold ids, as the deque and the global hold references.   *)
(* Prices and volumes are integers; volumes are counted in units of 10^9   *)
(* so that the 1e10 display cap of format_candle_for_client is the         *)
(* number 10.  Time is in whole seconds since the epoch.                   *)
(***************************************************************************)
EXTENDS Integers, Sequences, FiniteSets, TLC

VARIABLES
    \* ---- environment and configuration
    now,               \* time_module.time(), seconds
    tz_offset,         \* UTC offset of the local zone used by datetime.fromtimestamp, seconds
    timeframe_minute,  \* module global timeframe_minute
    \* ---- candle aggregator (module globals of live_chart_app.py)
    heap,              \* heap[id]: the candle dict with identity id (creation order)
    candle_window,     \* deque(maxlen=max_candle_window_len) of candle ids
    current_candle,    \* id of the in-progress candle dict, or None
    current_interval,  \* periodStart of the in-progress candle, or None
    \* ---- ingestion thread position inside handle_data
    ws_pc,             \* "idle" | "push_update" | "push_ticker"
    hd_copy,           \* candle_copy = dict(current_candle)
    hd_price,          \* price local of handle_data
    hd_data,           \* the argument of the latest handle_data call
    \* ---- distribution hub
    client_queues,     \* list of registered subscriber queues (by subscriber)
    queue,             \* queue[s]: contents of the subscriber's queue.Queue
    sse_pc,            \* position of each /events request
    sse_merged,        \* merged list read under data_lock (candle ids)
    sse_written,       \* messages yielded to the client so far
    prices_pc,         \* position of the /prices request: "idle" | "merged"
    prices_merged,     \* merged list read under data_lock by /prices (candle ids)
    prices_resp,       \* body of the last /prices response, or <<>> before any
    stop_event,        \* _stop_event.is_set()
    \* ---- history variables used to state the properties
    published,         \* events handed to push_to_clients for the latest accepted tick
    folded,            \* prices folded into the in-progress candle, in order
    folded_vol,        \* the volumes that came with them
    ticks,             \* number of accepted ticks (aggregator mutations)
    regressions,       \* number of backward steps of the wall clock so far
    last_tick_time,    \* time of the last accepted tick, or None
    crossings,         \* bucket boundaries crossed between consecutive accepted ticks
    ever_full,         \* subscribers whose queue was full at some publish
    pub_since,         \* pub_since[s]: events published since s registered
    prices_read_ver,   \* value of ticks when /prices read merged
    prices_ver,        \* value of ticks when /prices formatted its response
    sse_read_ver,      \* value of ticks when the subscriber read merged
    sse_yield_ver,     \* value of ticks when the subscriber formatted its snapshot
    \* ---- ws_connect_loop
    loop_pc,           \* "top" | "create" | "connecting" | "open" | "returned" | "sleeping" | "done"
    backoff,           \* local backoff, seconds
    sleep_for,         \* local sleep_for, seconds, or None
    connected,         \* tv.connected
    attempts,          \* TradingViewWS objects created so far
    opened,            \* on_open ran during the latest connection attempt
    sleeps,            \* backoff sleeps completed so far
    opens,             \* connection attempts that reached on_open so far
    \* ---- frame codec
    codec_payloads,    \* the payloads the peer framed, in order
    codec_msg,         \* the inbound message
    codec_pc,          \* "received" | "decoded"
    codec_out,         \* the frames the loop of on_message took from the message
    \* ---- on_message
    sse_alive,         \* per subscriber, whether its HTTP transport is up
    send_fails,        \* ws.send raises (the socket is going down)
    msg_sent,          \* the arguments of the ws.send calls on_message made, in order
    msg_handled,       \* the chunks whose JSON value on_message passed to handle_data
    msg_raised,        \* the exception that left on_message, or "none"
    \* ---- get_chart_timeframe_interval on its own
    iv_ts,             \* the timestamp argument, or None
    iv_out,            \* the value returned, or None
    \* ---- data_lock and the statements of handle_data and /prices one by one
    data_lock,         \* holder of data_lock: "free" | "ws" | "prices"
    hd_interval,       \* interval local of handle_data, or None
    heap_seen,         \* every value a candle dict has held, with its id
    prices_payload,    \* payload local of prices_snapshot
    prices_part,       \* the fields format_candle_for_client has read so far
    \* ---- queues whose put_nowait raises something other than queue.Full
    put_raises,
    \* ---- the TradingViewWS object of the current connection attempt
    tv_session,        \* tv.session, or "" before the first attempt
    tv_quote_session,  \* tv.quote_session, or "" before the first attempt
    mints,             \* generate_session calls so far
    hs_sent,           \* the messages on_open handed to ws.send without an exception
    folded_conn,       \* for each folded price, the connection attempt that delivered it
    \* ---- the inbound stream of the socket
    inbound,           \* the messages still to be delivered to on_message
    stream_kind,       \* how the peer's frames were put on the wire
    stream_in,         \* the payload lists the peer framed
    stream_handled,    \* every chunk passed to handle_data, over all messages
    \* ---- the /candles route of main.py
    heap_ist,          \* heap_ist[id]: the value of dict id under the key 'timestamp_ist' (ids beyond its length: no such key)
    candles_resp,      \* 'values' of the last /candles response, or <<>> before any
    \* ---- client_lock = threading.Lock()
    client_lock        \* "free", or the thread inside a with client_lock block

vars == << now, tz_offset, timeframe_minute, heap, candle_window, current_candle,
           current_interval, ws_pc, hd_copy, hd_price, hd_data, client_queues, queue, sse_pc,
           sse_merged, sse_written, prices_pc, prices_merged, prices_resp, stop_event,
           prices_read_ver, published, folded, folded_vol, ticks,
           regressions, last_tick_time, crossings, ever_full, pub_since,
           prices_ver, sse_read_ver, sse_yield_ver, loop_pc, backoff, sleep_for,
           connected, attempts, opened, sleeps, opens, codec_payloads, codec_msg, codec_pc,
           codec_out, iv_ts, iv_out, sse_alive, send_fails, msg_sent, msg_handled, msg_raised,
           data_lock, hd_interval, heap_seen, prices_payload, prices_part, put_raises,
           tv_session, tv_quote_session, mints, hs_sent, folded_conn,
           inbound, stream_kind, stream_in, stream_handled, heap_ist, candles_resp,
           client_lock >>

aggVars == << heap, candle_window, current_candle, current_interval >>
clockVars == << now, regressions >>
msgVars == << send_fails, msg_sent, msg_handled, msg_raised >>
tvVars == << tv_session, tv_quote_session, mints, hs_sent >>
loopVars == << loop_pc, backoff, sleep_for, connected, attempts, opened, sleeps, opens, tvVars >>
streamVars == << inbound, stream_kind, stream_in, stream_handled >>
codecVars == << codec_payloads, codec_msg, codec_pc, codec_out, msgVars, streamVars >>
raceVars == << data_lock, hd_interval, heap_seen, prices_payload, prices_part >>
\* what only the actions written for them change
candlesVars == << heap_ist, candles_resp >>
extVars == << raceVars, put_raises, candlesVars, client_lock >>
ivVars == << iv_ts, iv_out >>
\* what no step of the candle pipeline changes
cfgVars == << tz_offset, timeframe_minute, stop_event, loopVars, codecVars, ivVars, sse_alive,
             extVars >>
hdVars == << ws_pc, hd_copy, hd_price, hd_data >>
hubVars == << client_queues, queue, ever_full, pub_since >>
sseVars == << sse_pc, sse_merged, sse_written, sse_read_ver, sse_yield_ver >>
pricesVars == << prices_pc, prices_merged, prices_resp, prices_read_ver, prices_ver >>
tickHist == << published, folded, folded_vol, folded_conn, ticks, last_tick_time, crossings >>
\* everything the candle pipeline and the HTTP handlers own
appVars == << now, regressions, aggVars, hdVars, hubVars, sseVars, pricesVars, tickHist,
             sse_alive, extVars >>

-----------------------------------------------------------------------------
\* Bounds of the model

\* deque maxlen (100 in live_chart_app.py, 24 in main.py), shrunk
max_candle_window_len == 2
\* queue.Queue(maxsize=128), shrunk
QueueMax == 2
\* accepted ticks in one behaviour
MaxTicks == 4
\* timeframe buckets the clock may run through
MaxBuckets == 3
\* backward clock steps in one behaviour
MaxRegress == 1
\* accepted ticks in one behaviour of the hub specification
MaxHubTicks == 1
\* timeframe buckets the clock may run through in the hub specification
MaxHubBuckets == 1
\* accepted ticks in one behaviour of the snapshot specification
MaxSnapTicks == 2
\* timeframe buckets the clock may run through in the snapshot specification
MaxSnapBuckets == 1
\* connection attempts in one behaviour of the reconnect loop
MaxAttempts == 10
\* frames in one inbound message
MaxFrames == 3
\* accepted ticks, and buckets after the first, of the tick filter specification
MaxFilterTicks == 3
MaxFilterBuckets == 1
\* accepted ticks of the subscription specification
MaxSubTicks == 2
\* accepted ticks of the delivery specification
MaxDeliveryTicks == 2
\* frames the peer writes before the socket splits its text into two reads
MaxStreamFrames == 2
\* accepted ticks, and buckets after the first, of the lock specification
MaxCandlesTicks == 3
MaxOutageAttempts == 2
MaxOutageTicks == 2
MaxOutageBuckets == 1
MaxStaleTicks == 2

\* ticks and buckets of the specification with a clock that steps back
MaxRegressTicks == 3

MaxRegressBuckets == 1

\* ticks and buckets of the specification with a price float() rejects
MaxPoisonTicks == 3

MaxPoisonBuckets == 1
MaxRaceTicks == 2
MaxRaceBuckets == 1

\* Python None, for the integer-valued globals and fields
None == -1

\* a JSON string that is no number, such as "x", as the value of "lp"
TextPrice == -2

\* timeframe_minute of live_chart_app.py
LiveTimeframe == 1
\* display cap of format_candle_for_client, 1e10, in units of 10^9
VolumeCap == 10
\* Asia/Kolkata is UTC+05:30
IstOffset == 19800
\* ws_connect_loop: backoff = 1.0, max_backoff = 300.0, min(5.0, backoff)
BaseBackoff == 1
MaxBackoffSeconds == 300
JitterCap == 5

SYMBOL == "CRYPTO:BTCUSD"
Subs == {"s1", "s2"}
ClockSteps == {60}
StartTimes == {45}

Min2(a, b) == IF a <= b THEN a ELSE b
Max2(a, b) == IF a >= b THEN a ELSE b

-----------------------------------------------------------------------------
\* Utilities

\* Buggy variant used to test the properties: floors to the hour.
get_chart_timeframe_interval_hour(timestamp) ==
    LET local == timestamp + tz_offset
    IN  (local - (local % 3600)) - tz_offset

\* datetime.fromtimestamp(ts) is the local wall time; replace() floors the
\* minute-of-hour to a multiple of timeframe_minute and zeroes the seconds;
\* timestamp() converts the local wall time back.
get_chart_timeframe_interval(timestamp) ==
    LET local   == timestamp + tz_offset
        second  == local % 60
        minute  == (local \div 60) % 60
        floored == local - second - 60 * (minute % timeframe_minute)
    IN  floored - tz_offset

\* Buggy variant used to test the properties: serializes the close as the open.
format_candle_for_client_noclose(c) ==
    [ ts     |-> c.timestamp * 1000,
      open   |-> c.open,
      high   |-> c.high,
      low    |-> c.low,
      close  |-> c.open,
      volume |-> IF c.volume > VolumeCap \/ c.volume < 0 THEN 0 ELSE c.volume,
      ts_ist |-> c.timestamp + IstOffset ]

format_candle_for_client(c) ==
    [ ts     |-> c.timestamp * 1000,
      open   |-> c.open,
      high   |-> c.high,
      low    |-> c.low,
      close  |-> c.close,
      volume |-> IF c.volume > VolumeCap \/ c.volume < 0 THEN 0 ELSE c.volume,
      ts_ist |-> c.timestamp + IstOffset ]

\* Buggy variant used to test the properties: a full deque discards the new element.
DequeAppend_drop_newest(d, x) ==
    IF Len(d) >= max_candle_window_len THEN d ELSE Append(d, x)

\* deque.append on a bounded deque: the leftmost element is discarded when full
DequeAppend(d, x) ==
    IF Len(d) >= max_candle_window_len
    THEN Append(SubSeq(d, 2, Len(d)), x)
    ELSE Append(d, x)

-----------------------------------------------------------------------------
\* Distribution hub: push_to_clients

RECURSIVE PushLoop_stop_at_full(_, _, _)
\* Buggy variant used to test the properties: a full queue ends the loop.
PushLoop_stop_at_full(qs, q, ev) ==
    IF qs = << >> THEN q
    ELSE LET s == Head(qs)
         IN  IF s \in put_raises
             THEN PushLoop_stop_at_full(Tail(qs), q, ev)
             ELSE IF Len(q[s]) < QueueMax
             THEN PushLoop_stop_at_full(Tail(qs), [q EXCEPT ![s] = Append(@, ev)], ev)
             ELSE q

RECURSIVE PushLoop(_, _, _)
\* for q in list(client_queues): q.put_nowait(payload_text); queue.Full and any
\* other exception are swallowed, and the queue is left as it was
PushLoop(qs, q, ev) ==
    IF qs = << >> THEN q
    ELSE LET s == Head(qs)
         IN  PushLoop(Tail(qs),
                      IF s \notin put_raises /\ Len(q[s]) < QueueMax
                      THEN [q EXCEPT ![s] = Append(@, ev)] ELSE q,
                      ev)

Registered == { client_queues[i] : i \in 1..Len(client_queues) }

\* a queue whose put_nowait raised queue.Full, or nothing, is not in to_remove
Kept(s) == s \notin put_raises

\* Buggy variant used to test the properties: a full queue is unregistered too.
push_to_clients_removes_full(ev) ==
    /\ queue' = PushLoop(client_queues, queue, ev)
    /\ ever_full' = ever_full \cup { s \in Registered : Len(queue[s]) >= QueueMax }
    /\ pub_since' = [s \in Subs |-> IF s \in Registered
                                    THEN Append(pub_since[s], ev) ELSE pub_since[s]]
    /\ LET HasRoom(s) == Kept(s) /\ Len(queue[s]) < QueueMax
       IN  client_queues' = SelectSeq(client_queues, HasRoom)

\* push_to_clients(payload).  The queues whose put_nowait raised something
\* other than queue.Full are collected in to_remove and removed from
\* client_queues after the loop; a queue.Queue raises nothing but queue.Full.
push_to_clients(ev) ==
    /\ queue' = PushLoop(client_queues, queue, ev)
    /\ ever_full' = ever_full \cup { s \in Registered : Len(queue[s]) >= QueueMax }
    /\ pub_since' = [s \in Subs |-> IF s \in Registered
                                    THEN Append(pub_since[s], ev) ELSE pub_since[s]]
    /\ client_queues' = SelectSeq(client_queues, Kept)

-----------------------------------------------------------------------------
\* Candle aggregator: TradingViewWS.handle_data

\* no handle_data call yet
NoData == [m |-> "none", p_len |-> 0, n |-> "", lp |-> None, volume |-> None]

\* Buggy variant used to test the properties: the symbol name is not compared.
Accepted_any_symbol(data) ==
    /\ data.m = "qsd"
    /\ data.p_len >= 2
    /\ data.lp # None

\* Buggy variant used to test the properties: a missing price is let through.
Accepted_no_price_check(data) ==
    /\ data.m = "qsd"
    /\ data.p_len >= 2
    /\ data.n = SYMBOL

\* the checks of handle_data that precede the candle update
Accepted(data) ==
    /\ data.m = "qsd"
    /\ data.p_len >= 2
    /\ data.n = SYMBOL
    /\ data.lp # None

\* the spec's bucket of a time, used only by the history variables
FloorBucket(t) == (t \div (60 * timeframe_minute)) * (60 * timeframe_minute)

\* Buggy variant used to test the properties: the new candle keeps the old open.
NewCandle_stale_open(interval, price, volume) ==
    [ timestamp |-> interval,
      open      |-> IF current_candle # None THEN heap[current_candle].open ELSE price,
      high      |-> price,
      low       |-> price,
      close     |-> price,
      volume    |-> IF volume # None /\ volume # 0 THEN volume ELSE 0 ]

\* the dict built at "start new candle"
NewCandle(interval, price, volume) ==
    [ timestamp |-> interval,
      open      |-> price,
      high      |-> price,
      low       |-> price,
      close     |-> price,
      volume    |-> IF volume # None /\ volume # 0 THEN volume ELSE 0 ]

\* Buggy variant used to test the properties: the volumes are summed.
UpdateCandle_sum_volume(c, price, volume) ==
    [ c EXCEPT !.high   = Max2(c.high, price),
               !.low    = Min2(c.low, price),
               !.close  = price,
               !.volume = IF volume # None /\ volume # 0 THEN @ + volume ELSE @ ]

\* Buggy variant used to test the properties: the high is never raised.
UpdateCandle_no_high(c, price, volume) ==
    [ c EXCEPT !.low    = Min2(c.low, price),
               !.close  = price,
               !.volume = IF volume # None /\ volume # 0 THEN volume ELSE @ ]

\* the in-place update of the in-progress candle
UpdateCandle(c, price, volume) ==
    [ c EXCEPT !.high   = Max2(c.high, price),
               !.low    = Min2(c.low, price),
               !.close  = price,
               !.volume = IF volume # None /\ volume # 0 THEN volume ELSE @ ]

\* Buggy variant used to test the properties: the window is appended on every tick.
StartsNewCandle_always(interval) == TRUE

\* if current_interval is None or interval != current_interval
StartsNewCandle(interval) ==
    current_interval = None \/ interval # current_interval

\* Buggy variant used to test the properties: the new candle is written into the
\* dict that has just been appended to the window.
HandleDataLocked_reuses_dict(data) ==
    /\ ws_pc = "idle"
    /\ Accepted(data)
    /\ ticks < MaxTicks
    /\ LET price    == data.lp
           volume   == data.volume
           interval == get_chart_timeframe_interval(now)
       IN  /\ IF StartsNewCandle(interval)
              THEN /\ IF current_candle # None
                      THEN /\ candle_window' = DequeAppend(candle_window, current_candle)
                           /\ push_to_clients([type   |-> "candle_final",
                                               candle |-> format_candle_for_client(heap[current_candle])])
                           /\ published' = << [type   |-> "candle_final",
                                               candle |-> format_candle_for_client(heap[current_candle])] >>
                      ELSE /\ UNCHANGED << candle_window, hubVars >>
                           /\ published' = << >>
                   /\ IF current_candle # None
                      THEN /\ heap' = [heap EXCEPT ![current_candle] =
                                                      NewCandle(interval, price, volume)]
                           /\ UNCHANGED current_candle
                      ELSE /\ heap' = Append(heap, NewCandle(interval, price, volume))
                           /\ current_candle' = Len(heap) + 1
                   /\ current_interval' = interval
                   /\ folded' = << price >>
                   /\ folded_vol' = << volume >>
                   /\ folded_conn' = << attempts >>
              ELSE /\ heap' = [heap EXCEPT ![current_candle] = UpdateCandle(@, price, volume)]
                   /\ folded' = Append(folded, price)
                   /\ folded_vol' = Append(folded_vol, volume)
                   /\ folded_conn' = Append(folded_conn, attempts)
                   /\ published' = << >>
                   /\ UNCHANGED << candle_window, current_candle, current_interval, hubVars >>
           /\ hd_copy' = heap'[current_candle']
           /\ hd_price' = price
           /\ hd_data' = data
           /\ ws_pc' = "push_update"
    /\ ticks' = ticks + 1
    /\ crossings' = IF last_tick_time # None /\ FloorBucket(now) # FloorBucket(last_tick_time)
                    THEN crossings + 1 ELSE crossings
    /\ last_tick_time' = now
    /\ UNCHANGED << clockVars, cfgVars, sseVars, pricesVars >>

\* handle_data from its entry to the release of data_lock, for an accepted tick
HandleDataLocked(data) ==
    /\ ws_pc = "idle"
    /\ Accepted(data)
    /\ ticks < MaxTicks
    /\ LET price    == data.lp
           volume   == data.volume
           interval == get_chart_timeframe_interval(now)
       IN  /\ IF StartsNewCandle(interval)
              THEN /\ IF current_candle # None
                      THEN /\ candle_window' = DequeAppend(candle_window, current_candle)
                           /\ push_to_clients([type   |-> "candle_final",
                                               candle |-> format_candle_for_client(heap[current_candle])])
                           /\ published' = << [type   |-> "candle_final",
                                               candle |-> format_candle_for_client(heap[current_candle])] >>
                      ELSE /\ UNCHANGED << candle_window, hubVars >>
                           /\ published' = << >>
                   /\ heap' = Append(heap, NewCandle(interval, price, volume))
                   /\ current_candle' = Len(heap) + 1
                   /\ current_interval' = interval
                   /\ folded' = << price >>
                   /\ folded_vol' = << volume >>
                   /\ folded_conn' = << attempts >>
              ELSE /\ heap' = [heap EXCEPT ![current_candle] = UpdateCandle(@, price, volume)]
                   /\ folded' = Append(folded, price)
                   /\ folded_vol' = Append(folded_vol, volume)
                   /\ folded_conn' = Append(folded_conn, attempts)
                   /\ published' = << >>
                   /\ UNCHANGED << candle_window, current_candle, current_interval, hubVars >>
           /\ hd_copy' = heap'[current_candle']
           /\ hd_price' = price
           /\ hd_data' = data
           /\ ws_pc' = "push_update"
    /\ ticks' = ticks + 1
    /\ crossings' = IF last_tick_time # None /\ FloorBucket(now) # FloorBucket(last_tick_time)
                    THEN crossings + 1 ELSE crossings
    /\ last_tick_time' = now
    /\ UNCHANGED << clockVars, cfgVars, sseVars, pricesVars >>

\* handle_data for a message that one of its early returns (or the IndexError
\* of data.get("p", [])[1], caught by its except clause) discards
HandleDataRejected(data) ==
    /\ ws_pc = "idle"
    /\ ~Accepted(data)
    /\ hd_data' = data
    /\ UNCHANGED << clockVars, cfgVars, aggVars, ws_pc, hd_copy, hd_price, hubVars, sseVars,
                    pricesVars, tickHist >>

\* push_to_clients({"type": "candle_update", ...}) after the lock is released
HandleDataPushUpdate ==
    /\ ws_pc = "push_update"
    /\ push_to_clients([type |-> "candle_update", candle |-> format_candle_for_client(hd_copy)])
    /\ published' = Append(published,
                           [type |-> "candle_update", candle |-> format_candle_for_client(hd_copy)])
    /\ ws_pc' = "push_ticker"
    /\ UNCHANGED << clockVars, cfgVars, aggVars, hd_copy, hd_price, hd_data, sseVars,
                    pricesVars, folded, folded_vol, folded_conn, ticks, last_tick_time,
                    crossings >>

\* push_to_clients({"type": "ticker", ...}), the last statement of handle_data
HandleDataPushTicker ==
    /\ ws_pc = "push_ticker"
    /\ push_to_clients([type |-> "ticker", price |-> hd_price, ts |-> now * 1000])
    /\ published' = Append(published, [type |-> "ticker", price |-> hd_price, ts |-> now * 1000])
    /\ ws_pc' = "idle"
    /\ UNCHANGED << clockVars, cfgVars, aggVars, hd_copy, hd_price, hd_data, sseVars,
                    pricesVars, folded, folded_vol, folded_conn, ticks, last_tick_time,
                    crossings >>

-----------------------------------------------------------------------------
\* The wall clock read by time_module.time()

ClockAdvance(d) ==
    /\ now + d < 60 * timeframe_minute * (MaxBuckets + 1)
    /\ now' = now + d
    /\ UNCHANGED << regressions, cfgVars, aggVars, hdVars, hubVars, sseVars, pricesVars, tickHist >>

\* a wall-clock adjustment (time.time() is not monotonic)
ClockStepBack(d) ==
    /\ regressions < MaxRegress
    /\ now - d >= 0
    /\ now' = now - d
    /\ regressions' = regressions + 1
    /\ UNCHANGED << cfgVars, aggVars, hdVars, hubVars, sseVars, pricesVars, tickHist >>

-----------------------------------------------------------------------------
\* Specification of the aggregator alone: no subscriber connected, and a wall
\* clock that never steps back

AggData ==
    { [m |-> "qsd", p_len |-> 2, n |-> SYMBOL, lp |-> p, volume |-> v] :
        p \in {1}, v \in {None} }
    \cup { [m |-> "qsd", p_len |-> 2, n |-> SYMBOL, lp |-> 2, volume |-> 2],
           [m |-> "qsd", p_len |-> 2, n |-> SYMBOL, lp |-> 2, volume |-> 0],
           [m |-> "qsd", p_len |-> 2, n |-> SYMBOL, lp |-> 3, volume |-> 11],
           [m |-> "du",  p_len |-> 2, n |-> SYMBOL, lp |-> 1, volume |-> 2],
           [m |-> "qsd", p_len |-> 1, n |-> SYMBOL, lp |-> 1, volume |-> 2],
           [m |-> "qsd", p_len |-> 2, n |-> "OANDA:XAUUSD", lp |-> 1, volume |-> 2],
           [m |-> "qsd", p_len |-> 2, n |-> SYMBOL, lp |-> None, volume |-> 2] }

\* no candle dict carries the key 'timestamp_ist', and no /candles request yet
IdleCandles ==
    /\ heap_ist = << >>
    /\ candles_resp = << >>

\* data_lock = threading.Lock(), and no request thread inside prices_snapshot
IdleRace ==
    /\ data_lock = "free"
    /\ hd_interval = None
    /\ heap_seen = {}
    /\ prices_payload = << >>
    /\ prices_part = << >>

\* every subscriber queue is a queue.Queue whose put_nowait raises queue.Full only
IdleDelivery == put_raises = {}

\* no TradingViewWS object yet
IdleSession ==
    /\ tv_session = ""
    /\ tv_quote_session = ""
    /\ mints = 0
    /\ hs_sent = << >>

\* nothing waits on the socket
IdleStream ==
    /\ inbound = << >>
    /\ stream_kind = "none"
    /\ stream_in = << >>
    /\ stream_handled = << >>

IdleLoop ==
    /\ IdleSession
    /\ loop_pc = "top"
    /\ backoff = BaseBackoff
    /\ sleep_for = None
    /\ connected = FALSE
    /\ attempts = 0
    /\ opened = FALSE
    /\ sleeps = 0
    /\ opens = 0
    /\ stop_event = FALSE

IdleMessage ==
    /\ send_fails = FALSE
    /\ msg_sent = << >>
    /\ msg_handled = << >>
    /\ msg_raised = "none"

IdleCodec ==
    /\ IdleStream
    /\ codec_payloads = << >>
    /\ codec_msg = << >>
    /\ codec_pc = "decoded"
    /\ codec_out = << >>
    /\ IdleMessage

IdleInterval ==
    /\ iv_ts = None
    /\ iv_out = None

LiveConfig ==
    /\ tz_offset = IstOffset
    /\ timeframe_minute = LiveTimeframe

\* the module globals as the import of live_chart_app.py leaves them
InitApp ==
    /\ IdleRace
    /\ IdleCandles
    /\ client_lock = "free"
    /\ IdleDelivery
    /\ now \in StartTimes
    /\ sse_alive = [s \in Subs |-> TRUE]
    /\ heap = << >>
    /\ candle_window = << >>
    /\ current_candle = None
    /\ current_interval = None
    /\ ws_pc = "idle"
    /\ hd_copy = None
    /\ hd_price = None
    /\ hd_data = NoData
    /\ client_queues = << >>
    /\ queue = [s \in Subs |-> << >>]
    /\ sse_pc = [s \in Subs |-> "none"]
    /\ sse_merged = [s \in Subs |-> << >>]
    /\ sse_written = [s \in Subs |-> << >>]
    /\ prices_pc = "idle"
    /\ prices_merged = << >>
    /\ prices_resp = << >>
    /\ prices_read_ver = None
    /\ published = << >>
    /\ folded = << >>
    /\ folded_vol = << >>
    /\ folded_conn = << >>
    /\ ticks = 0
    /\ regressions = 0
    /\ last_tick_time = None
    /\ crossings = 0
    /\ ever_full = {}
    /\ pub_since = [s \in Subs |-> << >>]
    /\ prices_ver = None
    /\ sse_read_ver = [s \in Subs |-> None]
    /\ sse_yield_ver = [s \in Subs |-> None]

InitCommon == InitApp /\ LiveConfig /\ IdleLoop /\ IdleCodec /\ IdleInterval

InitAgg == InitCommon

NextAgg ==
    \/ \E d \in ClockSteps : ClockAdvance(d)
    \/ \E data \in AggData : HandleDataLocked(data)
    \/ HandleDataPushUpdate
    \/ HandleDataPushTicker

SpecAgg == InitAgg /\ [][NextAgg]_vars

-----------------------------------------------------------------------------
\* HTTP boundary: /events (sse_events) and /prices (prices_snapshot)

RemoveFirst(sq, x) ==
    IF \E i \in 1..Len(sq) : sq[i] = x
    THEN LET i == CHOOSE i \in 1..Len(sq) : sq[i] = x /\ \A j \in 1..(i - 1) : sq[j] # x
         IN  SubSeq(sq, 1, i - 1) \o SubSeq(sq, i + 1, Len(sq))
    ELSE sq

\* Buggy variant used to test the properties: the in-progress candle is left out.
Merged_window_only == candle_window

\* merged = list(candle_window); if current_candle: merged.append(current_candle)
Merged == IF current_candle # None THEN Append(candle_window, current_candle) ELSE candle_window

FormatAll(ids) == [i \in 1..Len(ids) |-> format_candle_for_client(heap[ids[i]])]

RECURSIVE InsertByTs(_, _)
\* insertion after every element whose ts is not larger: a stable sort step
InsertByTs(sorted, x) ==
    IF sorted = << >> THEN << x >>
    ELSE IF Head(sorted).ts <= x.ts
         THEN << Head(sorted) >> \o InsertByTs(Tail(sorted), x)
         ELSE << x >> \o sorted

RECURSIVE SortByTsFrom(_, _)
SortByTsFrom(acc, rest) ==
    IF rest = << >> THEN acc ELSE SortByTsFrom(InsertByTs(acc, Head(rest)), Tail(rest))

RECURSIVE Reverse(_)
Reverse(sq) == IF sq = << >> THEN << >> ELSE Append(Reverse(Tail(sq)), Head(sq))

\* Buggy variant used to test the properties: newest first.
SortByTs_descending(payload) == Reverse(SortByTsFrom(<< >>, payload))

\* payload.sort(key=lambda x: x["ts"]): list.sort is stable
SortByTs(payload) == SortByTsFrom(<< >>, payload)

\* Buggy variant used to test the properties: the request does not register
\* its queue before gen() runs.
SseConnect_no_register(s) ==
    /\ sse_pc[s] = "none"
    /\ sse_pc' = [sse_pc EXCEPT ![s] = "registered"]
    /\ UNCHANGED << clockVars, cfgVars, aggVars, hdVars, hubVars,
                    sse_merged, sse_written, sse_read_ver, sse_yield_ver, pricesVars, tickHist >>

\* q = queue.Queue(maxsize=128); with client_lock: client_queues.append(q)
SseConnect(s) ==
    /\ sse_pc[s] = "none"
    /\ client_queues' = Append(client_queues, s)
    /\ sse_pc' = [sse_pc EXCEPT ![s] = "registered"]
    /\ UNCHANGED << clockVars, cfgVars, aggVars, hdVars, queue, ever_full, pub_since,
                    sse_merged, sse_written, sse_read_ver, sse_yield_ver, pricesVars, tickHist >>

\* gen(): the with data_lock block
SseReadMerged(s) ==
    /\ sse_pc[s] = "registered"
    /\ sse_merged' = [sse_merged EXCEPT ![s] = Merged]
    /\ sse_read_ver' = [sse_read_ver EXCEPT ![s] = ticks]
    /\ sse_pc' = [sse_pc EXCEPT ![s] = "merged"]
    /\ UNCHANGED << clockVars, cfgVars, aggVars, hdVars, hubVars, sse_written, sse_yield_ver,
                    pricesVars, tickHist >>

\* Buggy variant used to test the properties: a queued message is written first.
FirstMessages_queue_first(s) ==
    IF queue[s] # << >>
    THEN << Head(queue[s]) >>
    ELSE << [type |-> "candles_snapshot", candles |-> FormatAll(sse_merged[s])] >>

\* gen(): snapshot = [format_candle_for_client(c) for c in merged] and the
\* first yield
FirstMessages(s) ==
    << [type |-> "candles_snapshot", candles |-> FormatAll(sse_merged[s])] >>

SseYieldSnapshot(s) ==
    /\ sse_pc[s] = "merged"
    /\ sse_written' = [sse_written EXCEPT ![s] = FirstMessages(s)]
    /\ sse_yield_ver' = [sse_yield_ver EXCEPT ![s] = ticks]
    /\ sse_pc' = [sse_pc EXCEPT ![s] = "streaming"]
    /\ UNCHANGED << clockVars, cfgVars, aggVars, hdVars, hubVars, sse_merged, sse_read_ver,
                    pricesVars, tickHist >>

\* Buggy variant used to test the properties: q.get takes the newest message.
SseDeliver_newest_first(s) ==
    /\ sse_pc[s] = "streaming"
    /\ ~stop_event
    /\ queue[s] # << >>
    /\ sse_written' = [sse_written EXCEPT ![s] = Append(@, queue[s][Len(queue[s])])]
    /\ queue' = [queue EXCEPT ![s] = SubSeq(@, 1, Len(@) - 1)]
    /\ UNCHANGED << clockVars, cfgVars, aggVars, hdVars, client_queues, ever_full, pub_since,
                    sse_pc, sse_merged, sse_read_ver, sse_yield_ver, pricesVars, tickHist >>

\* gen(): one turn of the while loop that finds a message: q.get, yield
SseDeliver(s) ==
    /\ sse_pc[s] = "streaming"
    /\ ~stop_event
    /\ queue[s] # << >>
    /\ sse_written' = [sse_written EXCEPT ![s] = Append(@, Head(queue[s]))]
    /\ queue' = [queue EXCEPT ![s] = Tail(@)]
    /\ UNCHANGED << clockVars, cfgVars, aggVars, hdVars, client_queues, ever_full, pub_since,
                    sse_pc, sse_merged, sse_read_ver, sse_yield_ver, pricesVars, tickHist >>

\* gen(): the client went away while the generator was suspended at a yield
\* (GeneratorExit), and the finally block removes the queue
SseClose(s) ==
    /\ sse_pc[s] = "streaming"
    /\ client_queues' = RemoveFirst(client_queues, s)
    /\ sse_pc' = [sse_pc EXCEPT ![s] = "closed"]
    /\ UNCHANGED << clockVars, cfgVars, aggVars, hdVars, queue, ever_full, pub_since,
                    sse_merged, sse_written, sse_read_ver, sse_yield_ver, pricesVars, tickHist >>

\* prices_snapshot(): the with data_lock block
PricesReadMerged ==
    /\ prices_pc = "idle"
    /\ prices_merged' = Merged
    /\ prices_read_ver' = ticks
    /\ prices_pc' = "merged"
    /\ UNCHANGED << clockVars, cfgVars, aggVars, hdVars, hubVars, sseVars, prices_resp,
                    prices_ver, tickHist >>

\* Buggy variant used to test the properties: the capped volume is written back
\* into the candle dicts.
PricesRespond_caps_in_place ==
    /\ prices_pc = "merged"
    /\ prices_resp' = SortByTs(FormatAll(prices_merged))
    /\ heap' = [id \in 1..Len(heap) |->
                   IF \E i \in 1..Len(prices_merged) : prices_merged[i] = id
                   THEN [heap[id] EXCEPT !.volume = format_candle_for_client(heap[id]).volume]
                   ELSE heap[id]]
    /\ prices_ver' = ticks
    /\ prices_pc' = "idle"
    /\ prices_merged' = << >>
    /\ UNCHANGED << clockVars, cfgVars, candle_window, current_candle, current_interval, hdVars,
                    hubVars, sseVars, prices_read_ver, tickHist >>

\* prices_snapshot(): format every candle, sort by ts, respond
PricesRespond ==
    /\ prices_pc = "merged"
    /\ prices_resp' = SortByTs(FormatAll(prices_merged))
    /\ prices_ver' = ticks
    /\ prices_pc' = "idle"
    /\ prices_merged' = << >>
    /\ UNCHANGED << clockVars, cfgVars, aggVars, hdVars, hubVars, sseVars,
                    prices_read_ver, tickHist >>

-----------------------------------------------------------------------------
\* Specification of the distribution hub: the ingestion thread, a wall clock
\* that never steps back, and the request threads of /events

HubData ==
    { [m |-> "qsd", p_len |-> 2, n |-> SYMBOL, lp |-> 2, volume |-> 2],
      [m |-> "qsd", p_len |-> 2, n |-> SYMBOL, lp |-> None, volume |-> 2] }

\* The hub specification starts in the state the aggregator is in after one
\* accepted tick of price 1 (a state SpecAgg reaches), with no subscriber yet.
FirstCandle == [timestamp |-> 0, open |-> 1, high |-> 1, low |-> 1, close |-> 1, volume |-> 0]

HubStart ==
    /\ LiveConfig /\ IdleLoop /\ IdleCodec /\ IdleInterval
    /\ IdleRace
    /\ IdleCandles
    /\ client_lock = "free"
    /\ sse_alive = [s \in Subs |-> TRUE]
    /\ now \in StartTimes
    /\ heap = << FirstCandle >>
    /\ candle_window = << >>
    /\ current_candle = 1
    /\ current_interval = 0
    /\ ws_pc = "idle"
    /\ hd_copy = FirstCandle
    /\ hd_price = 1
    /\ hd_data = [m |-> "qsd", p_len |-> 2, n |-> SYMBOL, lp |-> 1, volume |-> None]
    /\ client_queues = << >>
    /\ queue = [s \in Subs |-> << >>]
    /\ sse_pc = [s \in Subs |-> "none"]
    /\ sse_merged = [s \in Subs |-> << >>]
    /\ sse_written = [s \in Subs |-> << >>]
    /\ prices_pc = "idle"
    /\ prices_merged = << >>
    /\ prices_resp = << >>
    /\ prices_read_ver = None
    /\ published = << [type |-> "candle_update", candle |-> format_candle_for_client(FirstCandle)],
                      [type |-> "ticker", price |-> 1, ts |-> now * 1000] >>
    /\ folded = << 1 >>
    /\ folded_vol = << None >>
    /\ folded_conn = << 0 >>
    /\ ticks = 1
    /\ regressions = 0
    /\ last_tick_time = now
    /\ crossings = 0
    /\ ever_full = {}
    /\ pub_since = [s \in Subs |-> << >>]
    /\ prices_ver = None
    /\ sse_read_ver = [s \in Subs |-> None]
    /\ sse_yield_ver = [s \in Subs |-> None]

Init ==
    /\ IdleDelivery
    /\ HubStart

\* subscribers are named in the order in which they connect
ConnectsNext(s) == s = "s1" \/ sse_pc["s1"] # "none"

Next ==
    \/ \E d \in ClockSteps : now + d < 60 * timeframe_minute * (MaxHubBuckets + 1) /\ ClockAdvance(d)
    \/ \E data \in HubData : ticks < 1 + MaxHubTicks /\ HandleDataLocked(data)
    \/ HandleDataPushUpdate
    \/ HandleDataPushTicker
    \/ \E s \in Subs : ConnectsNext(s) /\ SseConnect(s)
    \/ \E s \in Subs : SseReadMerged(s)
    \/ \E s \in Subs : SseYieldSnapshot(s)
    \/ \E s \in Subs : SseDeliver(s)
    \/ \E s \in Subs : SseClose(s)

Spec == Init /\ [][Next]_vars

-----------------------------------------------------------------------------
\* Specification of the snapshot endpoints: the ingestion thread, a wall
\* clock that may step back, /prices and one /events request

SnapData ==
    { [m |-> "qsd", p_len |-> 2, n |-> SYMBOL, lp |-> 3, volume |-> 11],
      [m |-> "du",  p_len |-> 2, n |-> SYMBOL, lp |-> 1, volume |-> 2] }

InitSnap == InitCommon

NextSnap ==
    \/ \E d \in ClockSteps : now + d < 60 * timeframe_minute * (MaxSnapBuckets + 1) /\ ClockAdvance(d)
    \/ \E d \in ClockSteps : ClockStepBack(d)
    \/ \E data \in SnapData : ticks < MaxSnapTicks /\ HandleDataLocked(data)
    \/ HandleDataPushUpdate
    \/ HandleDataPushTicker
    \/ SseConnect("s1")
    \/ SseReadMerged("s1")
    \/ SseYieldSnapshot("s1")
    \/ PricesReadMerged
    \/ PricesRespond

SpecSnap == InitSnap /\ [][NextSnap]_vars

-----------------------------------------------------------------------------
\* Properties of the aggregator

RECURSIVE SeqMax(_)
SeqMax(sq) == IF Len(sq) = 1 THEN sq[1] ELSE Max2(sq[1], SeqMax(Tail(sq)))
RECURSIVE SeqMin(_)
SeqMin(sq) == IF Len(sq) = 1 THEN sq[1] ELSE Min2(sq[1], SeqMin(Tail(sq)))

\* C1: in every reachable state the in-progress candle has low <= open <= high
\* and low <= close <= high, its open is the first price folded into the
\* current bucket, its close the most recent one, its high the maximum and
\* its low the minimum of all prices folded into it.
C1_CandleOHLC ==
    current_candle # None =>
        LET c == heap[current_candle]
        IN  /\ c.low <= c.open /\ c.open <= c.high
            /\ c.low <= c.close /\ c.close <= c.high
            /\ Len(folded) >= 1
            /\ c.open = folded[1]
            /\ c.close = folded[Len(folded)]
            /\ c.high = SeqMax(folded)
            /\ c.low = SeqMin(folded)

\* a candle of three ticks whose open lies strictly between its low and its
\* high and whose close is its low
C1_Witness ==
    /\ current_candle # None
    /\ Len(folded) >= 3
    /\ heap[current_candle].low < heap[current_candle].open
    /\ heap[current_candle].open < heap[current_candle].high
    /\ heap[current_candle].close = heap[current_candle].low

\* the candles finalized so far, oldest first: every candle created before
\* the in-progress one
Finalized == IF current_candle = None THEN << >> ELSE [i \in 1..(current_candle - 1) |-> i]

LastK(sq, k) == SubSeq(sq, Len(sq) - k + 1, Len(sq))

\* C2: after accepted ticks with non-decreasing times that cross N bucket
\* boundaries, candle_window holds exactly min(N, capacity) candles, they are
\* the most recently finalized ones, and their periodStart values are strictly
\* increasing and all smaller than the in-progress candle's periodStart.
C2_WindowContents ==
    regressions = 0 =>
        /\ Len(candle_window) = Min2(crossings, max_candle_window_len)
        /\ Len(Finalized) = crossings
        /\ candle_window = LastK(Finalized, Min2(crossings, max_candle_window_len))
        /\ \A i \in 1..Len(candle_window) :
              /\ heap[candle_window[i]].timestamp < heap[current_candle].timestamp
              /\ i < Len(candle_window) =>
                    heap[candle_window[i]].timestamp < heap[candle_window[i + 1]].timestamp

\* more boundaries crossed than the window holds: the oldest candle was evicted
C2_Witness ==
    /\ regressions = 0
    /\ crossings > max_candle_window_len
    /\ Len(candle_window) = max_candle_window_len
    /\ candle_window[1] > 1

CandleFinalEvent(c) == [type |-> "candle_final", candle |-> format_candle_for_client(c)]

\* C3: an accepted tick finalizes a candle if and only if an in-progress candle
\* exists and the tick's periodStart differs from it; then the old candle is
\* appended to the window with its values unchanged, exactly one candle_final
\* event carrying it is published and a new in-progress candle starts with
\* open = high = low = close = tick price.  Otherwise (also for the first tick
\* ever accepted) nothing is appended and no candle_final is published.
C3_Finalize ==
    /\ [][ ticks' = ticks + 1 =>
            IF current_candle # None /\ FloorBucket(now) # heap[current_candle].timestamp
            THEN /\ Len(candle_window') >= 1
                 /\ candle_window'[Len(candle_window')] = current_candle
                 /\ \A i \in 1..(Len(candle_window') - 1) :
                        \E j \in 1..Len(candle_window) : candle_window[j] = candle_window'[i]
                 /\ heap'[current_candle] = heap[current_candle]
                 /\ published' = << CandleFinalEvent(heap[current_candle]) >>
                 /\ current_candle' # current_candle
                 /\ heap'[current_candle'] =
                        [ timestamp |-> FloorBucket(now), open |-> hd_price', high |-> hd_price',
                          low |-> hd_price', close |-> hd_price',
                          volume |-> heap'[current_candle'].volume ]
            ELSE /\ candle_window' = candle_window
                 /\ published' = << >>
                 /\ current_candle # None => current_candle' = current_candle
                 /\ current_candle = None =>
                        /\ current_candle' # None
                        /\ heap'[current_candle'] =
                               [ timestamp |-> FloorBucket(now), open |-> hd_price',
                                 high |-> hd_price', low |-> hd_price', close |-> hd_price',
                                 volume |-> heap'[current_candle'].volume ]
         ]_vars
    /\ [](Cardinality({ i \in 1..Len(published) : published[i].type = "candle_final" }) <= 1)

\* a candle_final event was just published for a candle that went to the window
C3_Witness ==
    /\ ws_pc = "push_update"
    /\ Len(published) = 1
    /\ published[1].type = "candle_final"
    /\ Len(candle_window) >= 1
    /\ published[1].candle = format_candle_for_client(heap[candle_window[Len(candle_window)]])

-----------------------------------------------------------------------------
\* Properties of the distribution hub and of the snapshot endpoints

\* what the subscriber's queue has been given since it registered: the
\* messages written after the snapshot, then the ones still queued
Received(s) ==
    (IF Len(sse_written[s]) >= 1 THEN Tail(sse_written[s]) ELSE << >>) \o queue[s]

RECURSIVE IsSubseq(_, _)
IsSubseq(a, b) ==
    IF a = << >> THEN TRUE
    ELSE IF b = << >> THEN FALSE
    ELSE IF Head(a) = Head(b) THEN IsSubseq(Tail(a), Tail(b))
    ELSE IsSubseq(a, Tail(b))

\* C7: with subscribers registered concurrently, every event passed to
\* push_to_clients is delivered to each subscriber whose queue was never full
\* at a publish; a subscriber whose queue was full loses only events of its
\* own; and the publishing steps of handle_data never wait for a queue.
C7_SlowConsumerIsolation ==
    /\ \A s \in Subs : s \notin ever_full => Received(s) = pub_since[s]
    /\ \A s \in Subs : IsSubseq(Received(s), pub_since[s])
    /\ ws_pc = "push_update" => ENABLED HandleDataPushUpdate
    /\ ws_pc = "push_ticker" => ENABLED HandleDataPushTicker

\* s1 registered first and lost an event to its full queue, while s2,
\* registered at the same time, was given all three events of a rollover tick
C7_Witness ==
    /\ "s1" \in ever_full
    /\ "s2" \notin ever_full
    /\ Len(queue["s1"]) = QueueMax
    /\ Len(pub_since["s1"]) > Len(Received("s1"))
    /\ Len(pub_since["s2"]) >= 3
    /\ pub_since["s2"] = pub_since["s1"]
    /\ Received("s2") = pub_since["s2"]

EventTypes(evs) == [i \in 1..Len(evs) |-> evs[i].type]

\* the live messages the subscriber has taken from its queue and yielded
Dequeued(s) == IF Len(sse_written[s]) >= 1 THEN Tail(sse_written[s]) ELSE << >>

\* C35: the locked part of handle_data publishes candle_final of the old
\* candle exactly when the tick starts a new bucket with a candle in progress,
\* and nothing otherwise; when handle_data has returned the tick's events are
\* candle_final (if any), then one candle_update carrying the in-progress
\* candle, then one ticker; and what a subscriber has dequeued is a
\* subsequence of what was published since it registered
C35_EventOrder ==
    /\ [][ticks' = ticks + 1 =>
            published' = IF current_candle # None /\ current_interval' # current_interval
                         THEN << CandleFinalEvent(heap[current_candle]) >>
                         ELSE << >>]_vars
    /\ [](ws_pc = "idle" =>
            /\ EventTypes(published) \in { << "candle_final", "candle_update", "ticker" >>,
                                           << "candle_update", "ticker" >> }
            /\ published[Len(published) - 1].candle
                  = format_candle_for_client(heap[current_candle])
            /\ published[Len(published)].price = hd_price)
    /\ [](\A s \in Subs : IsSubseq(Dequeued(s), pub_since[s]))

\* a subscriber has dequeued, in order, the three events of a rollover tick
C35_Witness ==
    /\ ws_pc = "idle"
    /\ EventTypes(published) = << "candle_final", "candle_update", "ticker" >>
    /\ Dequeued("s1") = published

\* the subscriber's snapshot has been read from the aggregator
SnapshotRead(s) == sse_pc[s] \in { "merged", "streaming" }

\* C36: a subscriber's queue is in client_queues from before its snapshot is
\* read for as long as its loop runs; every event published from then on is
\* appended to its queue unless the queue is full; and a message leaves the
\* queue only by being written to the subscriber
C36_NoGapAfterSnapshot ==
    /\ [](\A s \in Subs : SnapshotRead(s) => s \in Registered)
    /\ [][\A s \in Subs :
             (published' # published /\ published' # << >> /\ SnapshotRead(s)
                 /\ Len(queue[s]) < QueueMax)
             => queue'[s] = Append(queue[s], published'[Len(published')])]_vars
    /\ [][\A s \in Subs :
             (queue[s] # << >> /\ queue'[s] = Tail(queue[s]))
             => sse_written'[s] = Append(sse_written[s], Head(queue[s]))]_vars
    /\ [](\A s \in Subs : (SnapshotRead(s) /\ s \notin ever_full) => Received(s) = pub_since[s])

\* a subscriber that read its snapshot before the second tick has been given
\* the three events of that tick, its queue never full
C36_Witness ==
    /\ sse_read_ver["s1"] = 1
    /\ ticks = 2
    /\ ws_pc = "idle"
    /\ "s1" \notin ever_full
    /\ Len(published) = 3
    /\ Received("s1") = published

LiveTypes == {"candle_update", "candle_final", "ticker"}

\* C8: for every /events subscription the first message written is a
\* candles_snapshot holding the window contents followed by the in-progress
\* candle, and every candle_update, candle_final and ticker message of the
\* subscription is written after it.
C8_SnapshotFirst ==
    /\ [](\A s \in Subs :
            /\ sse_pc[s] \in {"none", "registered", "merged"} => sse_written[s] = << >>
            /\ Len(sse_written[s]) >= 1 =>
                  /\ sse_written[s][1].type = "candles_snapshot"
                  /\ Len(sse_written[s][1].candles) = Len(sse_merged[s])
                  /\ \A i \in 1..Len(sse_merged[s]) :
                        sse_written[s][1].candles[i].ts = heap[sse_merged[s][i]].timestamp * 1000
                  /\ \A i \in 2..Len(sse_written[s]) : sse_written[s][i].type \in LiveTypes)
    /\ [][\A s \in Subs :
            sse_pc[s] = "registered" /\ sse_pc'[s] = "merged" =>
                sse_merged'[s] = candle_window \o
                                    (IF current_candle # None THEN << current_candle >> ELSE << >>)
         ]_vars
    /\ [][\A s \in Subs :
            sse_pc[s] = "merged" /\ sse_pc'[s] = "streaming" =>
                sse_written'[s] =
                    << [type    |-> "candles_snapshot",
                        candles |-> [i \in 1..Len(sse_merged[s]) |->
                                        format_candle_for_client(heap[sse_merged[s][i]])]] >>
         ]_vars

\* a subscription whose snapshot held a window candle and the in-progress
\* candle and that has been written live messages after it
C8_Witness ==
    \E s \in Subs :
        /\ Len(sse_written[s]) >= 3
        /\ sse_written[s][1].type = "candles_snapshot"
        /\ Len(sse_written[s][1].candles) >= 2
        /\ ever_full = {}
        /\ Len(pub_since[s]) >= 3

\* the two requests saw the aggregator after the same number of mutations
SameInstant(s) ==
    /\ sse_pc[s] = "streaming"
    /\ prices_pc = "idle"
    /\ prices_ver # None
    /\ prices_read_ver = prices_ver
    /\ sse_read_ver[s] = prices_ver
    /\ sse_yield_ver[s] = prices_ver

SnapshotCandles(s) == sse_written[s][1].candles

NonDecreasingTs(sq) == \A i \in 1..(Len(sq) - 1) : sq[i].ts <= sq[i + 1].ts

Count(sq, x) == Cardinality({ i \in 1..Len(sq) : sq[i] = x })

-----------------------------------------------------------------------------
\* get_chart_timeframe_interval for every configured timeframe and time zone

\* TIMEFRAME_MINUTE of main.py is read from the environment; live_chart_app.py
\* fixes it to 1.  7 does not divide 60.
Timeframes == {1, 5, 7, 15, 60}
\* UTC, Asia/Kolkata (+05:30), Asia/Kathmandu (+05:45)
TzOffsets == {0, 19800, 20700}
TickTimes == {0, 100, 250, 299, 300, 610, 899, 3540, 3600, 3660, 7260}

InitInterval ==
    /\ InitApp /\ IdleLoop /\ IdleCodec
    /\ timeframe_minute \in Timeframes
    /\ tz_offset \in TzOffsets
    /\ iv_ts \in TickTimes
    /\ iv_out = None

CallInterval ==
    /\ iv_out = None
    /\ iv_out' = get_chart_timeframe_interval(iv_ts)
    /\ UNCHANGED << iv_ts, tz_offset, timeframe_minute, stop_event, loopVars, codecVars,
                    appVars >>

NextInterval == CallInterval

SpecInterval == InitInterval /\ [][NextInterval]_vars

\* C4: for every timeframe of T minutes and every tick time t, the period start
\* returned by get_chart_timeframe_interval is floor(t / (60*T)) * (60*T); with
\* T = 5 the ticks at 100 and 250 map to 0 and the tick at 610 maps to 600.
C4_FloorOfEpoch ==
    iv_out # None =>
        /\ iv_out = (iv_ts \div (60 * timeframe_minute)) * (60 * timeframe_minute)
        /\ (timeframe_minute = 5 /\ iv_ts \in {100, 250}) => iv_out = 0
        /\ (timeframe_minute = 5 /\ iv_ts = 610) => iv_out = 600

\* what the code does compute: the floor to a multiple of T minutes within the
\* local hour
C4_FloorOfLocalMinute ==
    iv_out # None =>
        LET local == iv_ts + tz_offset
            hour == (local \div 3600) * 3600
            minute == (local % 3600) \div 60
        IN  iv_out + tz_offset = hour + 60 * ((minute \div timeframe_minute) * timeframe_minute)

-----------------------------------------------------------------------------
\* ws_connect_loop: the reconnect loop of the main thread

NextBackoff_nocap(b) == b * 2

\* backoff = min(backoff * 2, max_backoff)
NextBackoff(b) == Min2(b * 2, MaxBackoffSeconds)

\* Buggy variant used to test the properties: random.uniform(0, backoff).
Jitter_uncapped(b) == 0 .. b

\* random.uniform(0, min(5.0, backoff)), in whole seconds
Jitter(b) == 0 .. Min2(JitterCap, b)

\* while not _stop_event.is_set(): false
LoopExit ==
    /\ loop_pc = "top"
    /\ stop_event
    /\ loop_pc' = "done"
    /\ UNCHANGED << tvVars, backoff, sleep_for, connected, attempts, opened, sleeps, opens,
                    tz_offset, timeframe_minute, stop_event, codecVars, ivVars, appVars >>

\* Buggy variant used to test the properties: while True.
LoopEnter_ignores_stop ==
    /\ loop_pc = "top"
    /\ attempts < MaxAttempts
    /\ loop_pc' = "create"
    /\ UNCHANGED << tvVars, backoff, sleep_for, connected, attempts, opened, sleeps, opens,
                    tz_offset, timeframe_minute, stop_event, codecVars, ivVars, appVars >>

\* while not _stop_event.is_set(): true, the body is entered
LoopEnter ==
    /\ loop_pc = "top"
    /\ ~stop_event
    /\ attempts < MaxAttempts
    /\ loop_pc' = "create"
    /\ UNCHANGED << tvVars, backoff, sleep_for, connected, attempts, opened, sleeps, opens,
                    tz_offset, timeframe_minute, stop_event, codecVars, ivVars, appVars >>

\* the 12 characters random.choices draws, shrunk to a choice of two texts
SessionTokens == { "a", "b" }

\* generate_session(prefix) when random.choices draws r
generate_session(prefix, r) ==
    IF prefix = "cs" THEN (IF r = "a" THEN "cs_a" ELSE "cs_b")
    ELSE (IF r = "a" THEN "qs_a" ELSE "qs_b")

\* Buggy variant used to test the properties: symbols are resolved before the
\* sessions exist.
Handshake_symbols_first(session, quote_session, symbol) ==
    << [m |-> "set_auth_token", p |-> << "unauthorized_user_token" >>],
       [m |-> "quote_add_symbols", p |-> << quote_session, symbol >>],
       [m |-> "resolve_symbol", p |-> << session, "symbol_1", symbol >>],
       [m |-> "chart_create_session", p |-> << session, "" >>],
       [m |-> "quote_create_session", p |-> << quote_session >>],
       [m |-> "quote_set_fields", p |-> << quote_session, "lp", "ch", "chp", "ask", "bid",
                                           "volume", "open", "high", "low" >>],
       [m |-> "quote_fast_symbols", p |-> << quote_session, symbol >>],
       [m |-> "create_series", p |-> << session, "s1", "symbol_1", "1", 300 >>] >>

\* the (func, params) pairs on_open passes to send, in order
Handshake(session, quote_session, symbol) ==
    << [m |-> "set_auth_token", p |-> << "unauthorized_user_token" >>],
       [m |-> "chart_create_session", p |-> << session, "" >>],
       [m |-> "quote_create_session", p |-> << quote_session >>],
       [m |-> "quote_set_fields", p |-> << quote_session, "lp", "ch", "chp", "ask", "bid",
                                           "volume", "open", "high", "low" >>],
       [m |-> "quote_add_symbols", p |-> << quote_session, symbol >>],
       [m |-> "quote_fast_symbols", p |-> << quote_session, symbol >>],
       [m |-> "resolve_symbol", p |-> << session, "symbol_1", symbol >>],
       [m |-> "create_series", p |-> << session, "s1", "symbol_1", "1", 300 >>] >>

\* how many of the sends of on_open reach the socket: all of them, or, when the
\* socket goes down, those made before it did (ws.send raises from then on
\* and send swallows the exception)
SendsBeforeFailure(n) == IF send_fails THEN 0 .. n ELSE { n }

\* Buggy variant used to test the properties: one TradingViewWS object serves
\* every attempt.
LoopConnect_keeps_session ==
    /\ loop_pc = "create"
    /\ attempts' = attempts + 1
    /\ IF attempts = 0
       THEN /\ \E r1, r2 \in SessionTokens :
                  /\ tv_session' = generate_session("cs", r1)
                  /\ tv_quote_session' = generate_session("qs", r2)
            /\ mints' = mints + 2
       ELSE UNCHANGED << tv_session, tv_quote_session, mints >>
    /\ hs_sent' = << >>
    /\ connected' = FALSE
    /\ opened' = FALSE
    /\ loop_pc' = "connecting"
    /\ UNCHANGED << backoff, sleep_for, sleeps, opens,
                    tz_offset, timeframe_minute, stop_event, codecVars, ivVars, appVars >>

\* Buggy variant used to test the properties: a new connection starts from an
\* empty window.
LoopConnect_resets_candles ==
    /\ loop_pc = "create"
    /\ attempts' = attempts + 1
    /\ \E r1, r2 \in SessionTokens :
          /\ tv_session' = generate_session("cs", r1)
          /\ tv_quote_session' = generate_session("qs", r2)
    /\ mints' = mints + 2
    /\ hs_sent' = << >>
    /\ connected' = FALSE
    /\ opened' = FALSE
    /\ loop_pc' = "connecting"
    /\ candle_window' = << >>
    /\ current_candle' = None
    /\ current_interval' = None
    /\ UNCHANGED << backoff, sleep_for, sleeps, opens, tz_offset, timeframe_minute, stop_event,
                    codecVars, ivVars, now, regressions, heap, hdVars, hubVars, sseVars,
                    pricesVars, tickHist, sse_alive, extVars >>

\* a new TradingViewWS, whose __init__ draws the two session ids, and a new
\* WebSocketApp; then run_forever starts connecting
LoopConnect ==
    /\ loop_pc = "create"
    /\ attempts' = attempts + 1
    /\ \E r1, r2 \in SessionTokens :
          /\ tv_session' = generate_session("cs", r1)
          /\ tv_quote_session' = generate_session("qs", r2)
    /\ mints' = mints + 2
    /\ hs_sent' = << >>
    /\ connected' = FALSE
    /\ opened' = FALSE
    /\ loop_pc' = "connecting"
    /\ UNCHANGED << backoff, sleep_for, sleeps, opens,
                    tz_offset, timeframe_minute, stop_event, codecVars, ivVars, appVars >>

\* the connection is refused or fails: on_error, and run_forever returns
ConnectFail ==
    /\ loop_pc = "connecting"
    /\ loop_pc' = "returned"
    /\ UNCHANGED << tvVars, backoff, sleep_for, connected, attempts, opened, sleeps, opens,
                    tz_offset, timeframe_minute, stop_event, codecVars, ivVars, appVars >>

\* the socket reaches Open: on_open sends the handshake and sets connected
on_open ==
    /\ loop_pc = "connecting"
    /\ loop_pc' = "open"
    /\ \E k \in SendsBeforeFailure(Len(Handshake(tv_session, tv_quote_session, SYMBOL))) :
          hs_sent' = SubSeq(Handshake(tv_session, tv_quote_session, SYMBOL), 1, k)
    /\ connected' = TRUE
    /\ opened' = TRUE
    /\ opens' = opens + 1
    /\ UNCHANGED << tv_session, tv_quote_session, mints, backoff, sleep_for, attempts, sleeps,
                    tz_offset, timeframe_minute, stop_event, codecVars, ivVars, appVars >>

\* the open socket closes: on_close, and run_forever returns
on_close ==
    /\ loop_pc = "open"
    /\ loop_pc' = "returned"
    /\ connected' = FALSE
    /\ UNCHANGED << tvVars, backoff, sleep_for, attempts, opened, sleeps, opens,
                    tz_offset, timeframe_minute, stop_event, codecVars, ivVars, appVars >>

\* after run_forever: break when the stop event is set
LoopBreak ==
    /\ loop_pc = "returned"
    /\ stop_event
    /\ loop_pc' = "done"
    /\ UNCHANGED << tvVars, backoff, sleep_for, connected, attempts, opened, sleeps, opens,
                    tz_offset, timeframe_minute, stop_event, codecVars, ivVars, appVars >>

\* sleep_for = backoff + random.uniform(0, min(5.0, backoff)); sleep begins
LoopSleep ==
    /\ loop_pc = "returned"
    /\ ~stop_event
    /\ \E j \in Jitter(backoff) : sleep_for' = backoff + j
    /\ loop_pc' = "sleeping"
    /\ UNCHANGED << tvVars, backoff, connected, attempts, opened, sleeps, opens,
                    tz_offset, timeframe_minute, stop_event, codecVars, ivVars, appVars >>

\* Buggy variant used to test the properties: the loop ends after one sleep.
LoopWake_gives_up ==
    /\ loop_pc = "sleeping"
    /\ loop_pc' = "done"
    /\ UNCHANGED << tvVars, backoff, sleep_for, connected, attempts, opened, sleeps, opens,
                    tz_offset, timeframe_minute, stop_event, codecVars, ivVars, appVars >>

\* the sleep ends; backoff = min(backoff * 2, max_backoff)
LoopWake ==
    /\ loop_pc = "sleeping"
    /\ backoff' = NextBackoff(backoff)
    /\ sleeps' = sleeps + 1
    /\ loop_pc' = "top"
    /\ UNCHANGED << tvVars, sleep_for, connected, attempts, opened, opens,
                    tz_offset, timeframe_minute, stop_event, codecVars, ivVars, appVars >>

\* SIGINT or SIGTERM
signal_handler ==
    /\ ~stop_event
    /\ stop_event' = TRUE
    /\ UNCHANGED << loopVars, tz_offset, timeframe_minute, codecVars, ivVars, appVars >>

InitLoop == InitCommon

NextLoop ==
    \/ LoopExit
    \/ LoopEnter
    \/ LoopConnect
    \/ ConnectFail
    \/ on_open
    \/ on_close
    \/ LoopBreak
    \/ LoopSleep
    \/ LoopWake
    \/ signal_handler

SpecLoop == InitLoop /\ [][NextLoop]_vars

\* The main thread keeps running the loop, time.sleep returns, and a connection
\* attempt ends in on_open or in an error.  Nothing makes an open socket close
\* and nothing makes a signal arrive.
LoopFairness ==
    /\ WF_vars(LoopExit)
    /\ WF_vars(LoopEnter)
    /\ WF_vars(LoopConnect)
    /\ WF_vars(LoopBreak)
    /\ WF_vars(LoopSleep)
    /\ WF_vars(LoopWake)
    /\ WF_vars(ConnectFail \/ on_open)

SpecLoopFair == InitLoop /\ [][NextLoop]_vars /\ LoopFairness

\* C5: after a connection attempt that reached Open, the delay used for the next
\* reconnect is the base delay again (the backoff resets on a successful Open).
C5_ResetAfterOpen ==
    (loop_pc = "sleeping" /\ opened) =>
        /\ backoff = BaseBackoff
        /\ sleep_for <= BaseBackoff + JitterCap

\* C6: the backoff starts at the base delay of 1 s, doubles after each failed
\* attempt, never decreases and never exceeds the ceiling of 300 s.
C6_BackoffDoublesToCeiling ==
    /\ [](/\ backoff = Min2(2 ^ sleeps, MaxBackoffSeconds)
          /\ BaseBackoff <= backoff
          /\ backoff <= MaxBackoffSeconds
          /\ loop_pc = "sleeping" => sleep_for \in backoff .. backoff + JitterCap)
    /\ [][/\ backoff' >= backoff
          /\ sleeps' # sleeps =>
                backoff' = IF 2 * backoff <= MaxBackoffSeconds THEN 2 * backoff
                           ELSE MaxBackoffSeconds]_vars

\* C32: whenever the loop sleeps, the sleep is the backoff plus a jitter
\* between 0 and min(5 s, backoff), so it is never longer than the ceiling
\* plus 5 s
C32_JitterCapped ==
    loop_pc = "sleeping" =>
        /\ sleep_for - backoff \in 0 .. Min2(JitterCap, backoff)
        /\ sleep_for <= MaxBackoffSeconds + JitterCap

\* the longest sleep there is: the backoff at its ceiling and the jitter at its cap
C32_Witness ==
    /\ loop_pc = "sleeping"
    /\ backoff = MaxBackoffSeconds
    /\ sleep_for = MaxBackoffSeconds + JitterCap

\* nine failures in a row have carried the delay 1, 2, 4, ... to the ceiling
C6_Witness ==
    /\ opens = 0
    /\ sleeps >= 9
    /\ backoff = MaxBackoffSeconds

-----------------------------------------------------------------------------
\* The frame codec: send frames a payload, the loop of on_message takes frames
\* from an inbound message.  A string is a sequence of one-character strings.

Marker == << "~", "m", "~" >>
HeartbeatPrefix == << "~", "h", "~" >>
DigitChars == << "0", "1", "2", "3", "4", "5", "6", "7", "8", "9" >>
DigitSet == { DigitChars[i] : i \in 1..10 }
DigitValue(c) == CHOOSE d \in 0..9 : DigitChars[d + 1] = c

\* str.startswith
StartsWith(str, prefix) ==
    /\ Len(str) >= Len(prefix)
    /\ SubSeq(str, 1, Len(prefix)) = prefix

\* the 1-based positions at which sep occurs in str
Occurrences(str, sep) ==
    { i \in 1 .. (Len(str) - Len(sep) + 1) : SubSeq(str, i, i + Len(sep) - 1) = sep }

SplitAt(str, sep, i) ==
    [head |-> SubSeq(str, 1, i - 1), tail |-> SubSeq(str, i + Len(sep), Len(str))]

\* str.rpartition keeps the separator's last occurrence
Partition_last(str, sep) ==
    LET occ == Occurrences(str, sep)
    IN  IF occ = {} THEN [head |-> str, tail |-> << >>]
        ELSE SplitAt(str, sep, CHOOSE i \in occ : \A j \in occ : j <= i)

\* str.partition: the text before and after the separator's first occurrence
Partition(str, sep) ==
    LET occ == Occurrences(str, sep)
    IN  IF occ = {} THEN [head |-> str, tail |-> << >>]
        ELSE SplitAt(str, sep, CHOOSE i \in occ : \A j \in occ : i <= j)

IsDigits(str) == Len(str) > 0 /\ \A i \in 1..Len(str) : str[i] \in DigitSet

RECURSIVE DigitsValue(_)
DigitsValue(str) ==
    IF Len(str) = 0 THEN 0
    ELSE 10 * DigitsValue(SubSeq(str, 1, Len(str) - 1)) + DigitValue(str[Len(str)])

\* does int(str) succeed: an optional sign, then decimal digits
IsInt(str) ==
    \/ IsDigits(str)
    \/ (Len(str) > 1 /\ str[1] \in {"-", "+"} /\ IsDigits(Tail(str)))

ParseInt(str) ==
    IF str[1] = "-" THEN 0 - DigitsValue(Tail(str))
    ELSE IF str[1] = "+" THEN DigitsValue(Tail(str))
    ELSE DigitsValue(str)

\* str[:n]
SliceTo(str, n) ==
    IF n >= 0 THEN SubSeq(str, 1, Min2(n, Len(str)))
    ELSE SubSeq(str, 1, Len(str) + n)

\* str[n:]
SliceFrom(str, n) ==
    IF n >= 0 THEN SubSeq(str, n + 1, Len(str))
    ELSE SubSeq(str, Max2(Len(str) + n, 0) + 1, Len(str))

\* "{}".format(n) of a length
RECURSIVE Digits(_)
Digits(n) ==
    IF n < 10 THEN << DigitChars[n + 1] >>
    ELSE Digits(n \div 10) \o << DigitChars[(n % 10) + 1] >>

\* "~m~{}~m~{}".format(len(msg), msg)
Encode(msg) == Marker \o Digits(Len(msg)) \o Marker \o msg

RECURSIVE EncodeAll(_)
EncodeAll(msgs) ==
    IF msgs = << >> THEN << >> ELSE Encode(Head(msgs)) \o EncodeAll(Tail(msgs))

RECURSIVE FrameLoop_drops_decoded(_, _)
\* Buggy variant used to test the properties: a length that is not a number
\* discards the chunks taken before it.
FrameLoop_drops_decoded(message, frames) ==
    IF ~StartsWith(message, Marker) THEN frames
    ELSE LET parts == Partition(SliceFrom(message, 3), Marker)
             len_str == parts.head
         IN  IF ~IsInt(len_str) THEN << >>
             ELSE LET length == ParseInt(len_str)
                      chunk == SliceTo(parts.tail, length)
                      rest == SliceFrom(parts.tail, length)
                  IN  FrameLoop_drops_decoded(rest, Append(frames,
                          [chunk |-> chunk, heartbeat |-> StartsWith(chunk, HeartbeatPrefix)]))

\* the while loop of on_message: the chunks it takes, in order, each marked as
\* a heartbeat chunk (answered) or a chunk handed to json.loads
RECURSIVE FrameLoop(_, _)
FrameLoop(message, frames) ==
    IF ~StartsWith(message, Marker) THEN frames
    ELSE LET parts == Partition(SliceFrom(message, 3), Marker)
             len_str == parts.head
         IN  IF ~IsInt(len_str) THEN frames
             ELSE LET length == ParseInt(len_str)
                      chunk == SliceTo(parts.tail, length)
                      rest == SliceFrom(parts.tail, length)
                  IN  FrameLoop(rest, Append(frames,
                          [chunk |-> chunk, heartbeat |-> StartsWith(chunk, HeartbeatPrefix)]))

\* {}
EmptyObject == << "{", "}" >>
\* {"m":"qsd"}, eleven characters: a two-digit length
QsdObject == << "{", "\"", "m", "\"", ":", "\"", "q", "s", "d", "\"", "}" >>
\* "~m~5~m~", a JSON string whose text is a frame header
HeaderString == << "\"", "~", "m", "~", "5", "~", "m", "~", "\"" >>
\* 12, a JSON number
NumberText == << "1", "2" >>
\* ~h~42
Heartbeat == << "~", "h", "~", "4", "2" >>

Payloads == { EmptyObject, QsdObject, HeaderString, NumberText, Heartbeat }

RECURSIVE SeqsUpTo(_, _)
SeqsUpTo(S, n) ==
    IF n = 0 THEN { << >> }
    ELSE LET shorter == SeqsUpTo(S, n - 1)
         IN  shorter \cup { Append(q, x) : q \in shorter, x \in S }

\* a message made of the frames of up to MaxFrames payloads has arrived
InitCodec ==
    /\ InitApp /\ LiveConfig /\ IdleLoop /\ IdleInterval /\ IdleStream
    /\ codec_payloads \in SeqsUpTo(Payloads, MaxFrames)
    /\ codec_msg = EncodeAll(codec_payloads)
    /\ codec_pc = "received"
    /\ codec_out = << >>
    /\ IdleMessage

ApplyFrameLoop ==
    /\ codec_pc = "received"
    /\ codec_out' = FrameLoop(codec_msg, << >>)
    /\ codec_pc' = "decoded"
    /\ UNCHANGED << codec_payloads, codec_msg, msgVars, streamVars, tz_offset, timeframe_minute,
                    stop_event, loopVars, ivVars, appVars >>

NextCodec == ApplyFrameLoop

SpecCodec == InitCodec /\ [][NextCodec]_vars

Chunks(frames) == [i \in 1..Len(frames) |-> frames[i].chunk]

\* C10: the frame loop of on_message, applied to the concatenation of the
\* encodings ~m~<len(p)>~m~<p> of payloads p1..pn, takes exactly p1..pn, in
\* order, each once; for one payload, decode(encode(p)) = [p].
C10_RoundTrip ==
    /\ codec_pc = "decoded" => Chunks(codec_out) = codec_payloads
    /\ \A p \in Payloads : Chunks(FrameLoop(Encode(p), << >>)) = << p >>

\* three frames have been taken, a heartbeat and a payload holding a header
\* among them
C10_Witness ==
    /\ codec_pc = "decoded"
    /\ Len(codec_payloads) = 3
    /\ Len(codec_out) = 3
    /\ \E i, j, k \in 1..3 :
          /\ codec_out[i].heartbeat
          /\ codec_payloads[j] = HeaderString
          /\ codec_payloads[k] = QsdObject

-----------------------------------------------------------------------------
\* on_message as a whole: the heartbeat echo that precedes the frame loop, the
\* replies and handle_data calls of the loop, and the except clauses

\* the exception classes raised in the model, all subclasses of Exception
PythonExceptions ==
    { "IndexError", "ValueError", "AttributeError", "JSONDecodeError", "WebSocketException" }

ExceptException_ValueError_only(exc) == exc = "ValueError"

\* except Exception:
ExceptException(exc) == exc \in PythonExceptions

\* len(message.split("~m~"))
RECURSIVE SplitCount(_)
SplitCount(str) ==
    IF Occurrences(str, Marker) = {} THEN 1
    ELSE 1 + SplitCount(Partition(str, Marker).tail)

IsJsonNumber(chunk) == IsDigits(chunk) /\ (Len(chunk) = 1 \/ chunk[1] # "0")

IsJsonString(chunk) ==
    /\ Len(chunk) >= 2
    /\ chunk[1] = "\"" /\ chunk[Len(chunk)] = "\""
    /\ \A i \in 2 .. (Len(chunk) - 1) : chunk[i] # "\""

\* {lp:1} and {lp:3}, short for the qsd message of SYMBOL
\* {"m":"qsd","p":[session,{"n":SYMBOL,"v":{"lp":1,"volume":2}}]} and the same with lp 3
TickOne == << "{", "l", "p", ":", "1", "}" >>
TickThree == << "{", "l", "p", ":", "3", "}" >>
TickObjects == { TickOne, TickThree }

\* does json.loads(chunk) succeed, for the texts of the model's alphabet
IsJson(chunk) ==
    \/ chunk = EmptyObject
    \/ chunk = QsdObject
    \/ chunk \in TickObjects
    \/ IsJsonNumber(chunk)
    \/ IsJsonString(chunk)

IsHeartbeatChunk(chunk) == StartsWith(chunk, HeartbeatPrefix)

\* what the body of handle_data raises for the value of a chunk: a number or a
\* string has no get; {} is not a qsd message; {"m":"qsd"} has no p, and
\* data.get("p", [])[1] raises
HandleDataBody(chunk) ==
    IF IsJsonNumber(chunk) \/ IsJsonString(chunk) THEN "AttributeError"
    ELSE IF chunk = QsdObject THEN "IndexError"
    ELSE "none"

\* what passes a try ... except Exception
Try(exc) == IF exc # "none" /\ ExceptException(exc) THEN "none" ELSE exc

\* handle_data(data): its body sits in try ... except Exception
HandleDataCall(chunk) == Try(HandleDataBody(chunk))

\* the body of the frame loop, for the frames it takes; an exception that no
\* inner except clause catches ends it
RECURSIVE Dispatch(_, _, _)
Dispatch(frames, acc, fails) ==
    IF frames = << >> \/ acc.raised # "none" THEN acc
    ELSE LET chunk == Head(frames).chunk
         IN  IF IsHeartbeatChunk(chunk)
             THEN Dispatch(Tail(frames),
                           [acc EXCEPT !.sent = Append(@, Encode(chunk)),
                                       !.raised = Try(IF fails THEN "WebSocketException"
                                                      ELSE "none")],
                           fails)
             ELSE IF ~IsJson(chunk)
             THEN Dispatch(Tail(frames), [acc EXCEPT !.raised = Try("JSONDecodeError")], fails)
             ELSE Dispatch(Tail(frames),
                           [acc EXCEPT !.handled = Append(@, chunk),
                                       !.raised = HandleDataCall(chunk)],
                           fails)

NoCalls == [sent |-> << >>, handled |-> << >>, raised |-> "none"]

\* the statements of on_message inside its outer try
OnMessageBody(message, fails) ==
    IF StartsWith(message, Marker) /\ Occurrences(message, Marker \o HeartbeatPrefix) # {}
    THEN IF SplitCount(message) < 3
         THEN \* message.split("~m~")[2] raises
              IF Try("IndexError") # "none" THEN [NoCalls EXCEPT !.raised = "IndexError"]
              ELSE Dispatch(FrameLoop(message, << >>), NoCalls, fails)
         ELSE IF ~fails
         THEN \* ws.send(message); return
              [NoCalls EXCEPT !.sent = << message >>]
         ELSE IF Try("WebSocketException") # "none"
         THEN [NoCalls EXCEPT !.sent = << message >>, !.raised = "WebSocketException"]
         ELSE Dispatch(FrameLoop(message, << >>), [NoCalls EXCEPT !.sent = << message >>], fails)
    ELSE Dispatch(FrameLoop(message, << >>), NoCalls, fails)

OnMessage(message, fails) ==
    LET r == OnMessageBody(message, fails)
    IN  [r EXCEPT !.raised = Try(@)]

\* {x, not JSON
BadJson == << "{", "x" >>

MessagePayloads == Payloads \cup { BadJson }

\* ~m~x~m~{}  ~m~~h~  ~m~99~m~{}  ~m~-1~m~12
MalformedMessages ==
    { Marker \o << "x" >> \o Marker \o EmptyObject,
      Marker \o HeartbeatPrefix,
      Marker \o << "9", "9" >> \o Marker \o EmptyObject,
      Marker \o << "-", "1" >> \o Marker \o NumberText }

\* the TradingViewWS object of a first attempt whose on_open has run
FirstSession ==
    /\ tv_session = generate_session("cs", "a")
    /\ tv_quote_session = generate_session("qs", "a")
    /\ mints = 2
    /\ hs_sent = Handshake(tv_session, tv_quote_session, SYMBOL)

\* the connection is Open and a message has arrived
InitMessage ==
    /\ InitApp /\ LiveConfig /\ IdleInterval /\ FirstSession /\ IdleStream
    /\ loop_pc = "open"
    /\ backoff = BaseBackoff
    /\ sleep_for = None
    /\ connected = TRUE
    /\ attempts = 1
    /\ opened = TRUE
    /\ sleeps = 0
    /\ opens = 1
    /\ stop_event = FALSE
    /\ \/ /\ codec_payloads \in SeqsUpTo(MessagePayloads, MaxFrames)
          /\ codec_msg = EncodeAll(codec_payloads)
       \/ /\ codec_payloads = << >>
          /\ codec_msg \in MalformedMessages
    /\ codec_pc = "received"
    /\ codec_out = << >>
    /\ send_fails \in BOOLEAN
    /\ msg_sent = << >>
    /\ msg_handled = << >>
    /\ msg_raised = "none"

on_message ==
    /\ codec_pc = "received"
    /\ loop_pc = "open"
    /\ LET r == OnMessage(codec_msg, send_fails)
       IN  /\ msg_sent' = r.sent
           /\ msg_handled' = r.handled
           /\ msg_raised' = r.raised
           /\ stream_handled' = stream_handled \o r.handled
           /\ loop_pc' = IF r.raised = "none" THEN "open" ELSE "returned"
    /\ codec_pc' = "handled"
    /\ UNCHANGED << codec_payloads, codec_msg, codec_out, send_fails, tvVars, inbound,
                    stream_kind, stream_in,
                    backoff, sleep_for,
                    connected, attempts, opened, sleeps, opens, tz_offset, timeframe_minute,
                    stop_event, ivVars, appVars >>

NextMessage == on_message

SpecMessage == InitMessage /\ [][NextMessage]_vars

Framed == codec_pc = "handled" /\ codec_msg = EncodeAll(codec_payloads)

EncodeEach(msgs) == [i \in 1..Len(msgs) |-> Encode(msgs[i])]

\* C11: every frame of an inbound message whose payload begins with ~h~ is
\* answered by exactly one send of ~m~<len>~m~<that payload>, and nothing else
\* is sent back (no JSON frame is echoed).
C11_HeartbeatReplies ==
    (Framed /\ ~send_fails) => msg_sent = EncodeEach(SelectSeq(codec_payloads, IsHeartbeatChunk))

\* C12: handle_data is invoked exactly for the well-formed JSON frames of an
\* inbound message, in order, also when the message holds a heartbeat frame.
C12_JsonFramesHandled ==
    Framed => msg_handled = SelectSeq(codec_payloads, IsJson)

\* C17: no exception raised while an inbound message is handled leaves
\* on_message, and the connection stays Open.
C17_ExceptionsContained ==
    codec_pc = "handled" => (msg_raised = "none" /\ loop_pc = "open" /\ connected)

\* a failing echo, a failing heartbeat reply, a value handle_data cannot read
\* and a chunk that is not JSON, in one message
C17_Witness ==
    /\ codec_pc = "handled"
    /\ send_fails
    /\ codec_payloads = << Heartbeat, NumberText, BadJson >>
    /\ Len(msg_sent) = 2
    /\ msg_handled = << NumberText >>

-----------------------------------------------------------------------------
\* handle_data for ticks it folds and for frames it discards, with a
\* subscriber registered

\* one price with every kind of volume, and one frame for each early return
FilterData ==
    { [m |-> "qsd", p_len |-> 2, n |-> SYMBOL, lp |-> 2, volume |-> v] : v \in {None, 0, 2, 11} }
    \cup { [m |-> "du",  p_len |-> 2, n |-> SYMBOL, lp |-> 1, volume |-> 2],
           [m |-> "qsd", p_len |-> 2, n |-> "OANDA:XAUUSD", lp |-> 1, volume |-> 2],
           [m |-> "qsd", p_len |-> 2, n |-> SYMBOL, lp |-> None, volume |-> 2],
           [m |-> "qsd", p_len |-> 1, n |-> SYMBOL, lp |-> 1, volume |-> 2] }

InitFilter == InitCommon

NextFilter ==
    \/ \E d \in ClockSteps :
          now + d < 60 * timeframe_minute * (MaxFilterBuckets + 1) /\ ClockAdvance(d)
    \/ \E data \in FilterData : ticks < MaxFilterTicks /\ HandleDataLocked(data)
    \/ \E data \in FilterData : HandleDataRejected(data)
    \/ HandleDataPushUpdate
    \/ HandleDataPushTicker
    \/ SseConnect("s1")

SpecFilter == InitFilter /\ [][NextFilter]_vars

\* a handle_data call has just been made with an argument that is not the
\* previous one
CalledWith(P(_)) == hd_data' # hd_data /\ P(hd_data')

NotForUs(data) ==
    \/ data.m \notin {"qsd", "none"}
    \/ data.m = "qsd" /\ data.p_len >= 2 /\ data.n # SYMBOL

NoPrice(data) ==
    data.m = "qsd" /\ data.p_len >= 2 /\ data.n = SYMBOL /\ data.lp = None

NothingHappens == UNCHANGED << aggVars, ws_pc, published, queue, folded, ticks >>

\* C13: a JSON frame whose method is not qsd, or whose symbol name is not the
\* subscribed one, leaves the window, the in-progress candle and
\* current_interval as they are and publishes no event.
C13_OtherFramesIgnored == [][CalledWith(NotForUs) => NothingHappens]_vars

\* a frame for another symbol was discarded while a candle was in progress and
\* a subscriber was registered
C13_Witness ==
    /\ hd_data.m = "qsd"
    /\ hd_data.n # SYMBOL
    /\ current_candle # None
    /\ Registered # {}
    /\ ws_pc = "idle"

\* C14: a qsd frame for the subscribed symbol whose price is null or missing
\* leaves the window, the in-progress candle and current_interval as they are
\* and publishes no candle_update, candle_final or ticker.
C14_NoPriceRejected == [][CalledWith(NoPrice) => NothingHappens]_vars

\* a frame without a price was discarded in a new bucket, where an accepted
\* tick would have finalized the candle in progress
C14_Witness ==
    /\ NoPrice(hd_data)
    /\ current_candle # None
    /\ get_chart_timeframe_interval(now) # current_interval
    /\ Registered # {}
    /\ ws_pc = "idle"

\* the latest volume of a sequence that is present and not zero, or 0
LatestVolume(vols) ==
    LET present == { i \in 1..Len(vols) : vols[i] # None /\ vols[i] # 0 }
    IN  IF present = {} THEN 0
        ELSE vols[CHOOSE i \in present : \A j \in present : j <= i]

\* C15: the volume of a candle is the volume of the most recent tick folded
\* into it whose volume is present and not zero, or 0 if there is none; volumes
\* are never summed.
C15_VolumeLastWins ==
    current_candle # None => heap[current_candle].volume = LatestVolume(folded_vol)

\* two different volumes and then an absent or zero one were folded in
C15_Witness ==
    /\ current_candle # None
    /\ Len(folded_vol) = 3
    /\ folded_vol[1] \notin {None, 0}
    /\ folded_vol[2] \notin {None, 0, folded_vol[1]}
    /\ folded_vol[3] \in {None, 0}
    /\ heap[current_candle].volume = folded_vol[2]

-----------------------------------------------------------------------------
\* Properties of the reconnect loop under the stop signal and under fairness

\* C16: when a connection attempt fails, or the connection leaves Open, and
\* the stop signal is not set, ws_connect_loop eventually starts a new attempt
\* after its backoff sleep (unless the stop signal arrives meanwhile).
C16_Reconnects ==
    (loop_pc = "returned" /\ ~stop_event /\ attempts < MaxAttempts)
        ~> (loop_pc = "connecting" \/ stop_event)

\* a new attempt is under way after a connection that had been Open was lost
C16_Witness ==
    /\ loop_pc = "connecting"
    /\ ~stop_event
    /\ attempts >= 2
    /\ opens >= 1
    /\ sleeps >= 1

\* C18 as stated: once the stop signal is set, no new TradingViewWS is created
\* and run_forever is not called again.
C18_NoAttemptAfterStop == [][stop_event => attempts' = attempts]_vars

\* C18: once the stop signal is set, the loop test never passes again; the only
\* attempt that can still begin is the one whose loop test had passed before the
\* signal arrived.
C18_NoIterationAfterStop ==
    /\ [][stop_event => ~(loop_pc = "top" /\ loop_pc' = "create")]_vars
    /\ [][(stop_event /\ attempts' # attempts) => loop_pc = "create"]_vars
    /\ [][(stop_event /\ loop_pc = "sleeping") => loop_pc' \in {"sleeping", "top"}]_vars
    /\ [](stop_event /\ loop_pc = "done" => ~ENABLED LoopConnect)

\* the signal arrived during a backoff sleep and the loop ended at its test
C18_Witness ==
    /\ stop_event
    /\ loop_pc = "done"
    /\ sleep_for # None
    /\ attempts = sleeps

\* C19: after the stop signal is set, ws_connect_loop eventually returns, also
\* when the signal arrives while the connection is Open.
C19_StopEndsLoop == stop_event ~> (loop_pc = "done")

\* outside Open the loop does end after the stop signal
C19_EndsUnlessOpen == stop_event ~> (loop_pc \in {"done", "open"})

-----------------------------------------------------------------------------
\* The life of an /events subscription: the generator is either suspended at a
\* yield while the server writes the chunk, or inside its q.get loop.  The
\* server learns that the transport is gone only when a write fails.

\* the first yield of gen(): the snapshot is handed to the server
SubYieldSnapshot(s) ==
    /\ sse_pc[s] = "merged"
    /\ sse_written' = [sse_written EXCEPT ![s] = FirstMessages(s)]
    /\ sse_yield_ver' = [sse_yield_ver EXCEPT ![s] = ticks]
    /\ sse_pc' = [sse_pc EXCEPT ![s] = "yielded"]
    /\ UNCHANGED << clockVars, cfgVars, aggVars, hdVars, hubVars, sse_merged, sse_read_ver,
                    pricesVars, tickHist >>

\* the server wrote the chunk and resumes the generator, which enters
\* while not _stop_event.is_set(): q.get(timeout=1.0)
SubWriteOk(s) ==
    /\ sse_pc[s] = "yielded"
    /\ sse_alive[s]
    /\ sse_pc' = [sse_pc EXCEPT ![s] = "waiting"]
    /\ UNCHANGED << clockVars, cfgVars, aggVars, hdVars, hubVars, sse_merged, sse_written,
                    sse_read_ver, sse_yield_ver, pricesVars, tickHist >>

\* the write fails, the server closes the generator: GeneratorExit at the
\* yield, and the finally block removes the queue
SubWriteFails(s) ==
    /\ sse_pc[s] = "yielded"
    /\ ~sse_alive[s]
    /\ client_queues' = RemoveFirst(client_queues, s)
    /\ sse_pc' = [sse_pc EXCEPT ![s] = "closed"]
    /\ UNCHANGED << clockVars, cfgVars, aggVars, hdVars, queue, ever_full, pub_since,
                    sse_merged, sse_written, sse_read_ver, sse_yield_ver, pricesVars, tickHist >>

\* q.get returns a message and the generator yields it
SubGet(s) ==
    /\ sse_pc[s] = "waiting"
    /\ ~stop_event
    /\ queue[s] # << >>
    /\ sse_written' = [sse_written EXCEPT ![s] = Append(@, Head(queue[s]))]
    /\ queue' = [queue EXCEPT ![s] = Tail(@)]
    /\ sse_pc' = [sse_pc EXCEPT ![s] = "yielded"]
    /\ UNCHANGED << clockVars, cfgVars, aggVars, hdVars, client_queues, ever_full, pub_since,
                    sse_merged, sse_read_ver, sse_yield_ver, pricesVars, tickHist >>

\* Buggy variant used to test the properties: the generator ends without a
\* finally block.
SubStop_keeps_queue(s) ==
    /\ sse_pc[s] = "waiting"
    /\ stop_event
    /\ sse_pc' = [sse_pc EXCEPT ![s] = "closed"]
    /\ UNCHANGED << clockVars, cfgVars, aggVars, hdVars, hubVars,
                    sse_merged, sse_written, sse_read_ver, sse_yield_ver, pricesVars, tickHist >>

\* the while test finds the stop event set: the generator ends through its
\* finally block
SubStop(s) ==
    /\ sse_pc[s] = "waiting"
    /\ stop_event
    /\ client_queues' = RemoveFirst(client_queues, s)
    /\ sse_pc' = [sse_pc EXCEPT ![s] = "closed"]
    /\ UNCHANGED << clockVars, cfgVars, aggVars, hdVars, queue, ever_full, pub_since,
                    sse_merged, sse_written, sse_read_ver, sse_yield_ver, pricesVars, tickHist >>

\* the client goes away or the network fails
TransportClose(s) ==
    /\ sse_pc[s] \in {"registered", "merged", "yielded", "waiting"}
    /\ sse_alive[s]
    /\ sse_alive' = [sse_alive EXCEPT ![s] = FALSE]
    /\ UNCHANGED << extVars, tz_offset, timeframe_minute, stop_event, loopVars, codecVars, ivVars,
                    now, regressions, aggVars, hdVars, hubVars, sseVars, pricesVars, tickHist >>

InitSub == InitCommon

NextSub ==
    \/ \E data \in HubData : ticks < MaxSubTicks /\ HandleDataLocked(data)
    \/ HandleDataPushUpdate
    \/ HandleDataPushTicker
    \/ SseConnect("s1")
    \/ SseReadMerged("s1")
    \/ SubYieldSnapshot("s1")
    \/ SubWriteOk("s1")
    \/ SubWriteFails("s1")
    \/ SubGet("s1")
    \/ SubStop("s1")
    \/ TransportClose("s1")
    \/ signal_handler

\* One subscriber.  The server thread and the WebSocket thread keep running.  Nothing makes a
\* tick arrive, a client go away or a signal arrive.
SubFairness ==
    /\ WF_vars(HandleDataPushUpdate)
    /\ WF_vars(HandleDataPushTicker)
    /\ WF_vars(SseReadMerged("s1"))
    /\ WF_vars(SubYieldSnapshot("s1"))
    /\ WF_vars(SubWriteOk("s1"))
    /\ WF_vars(SubWriteFails("s1"))
    /\ WF_vars(SubGet("s1"))
    /\ WF_vars(SubStop("s1"))

SpecSub == InitSub /\ [][NextSub]_vars /\ SubFairness

\* C20: once the transport of a subscription is closed, its queue is
\* eventually removed from client_queues.
C20_DeadQueueRemoved ==
    (~sse_alive["s1"]) ~> ("s1" \notin Registered)

\* while the generator is at a yield, or before its first yield, the closed
\* transport is noticed and the queue removed
C20_RemovedAtNextWrite ==
    (~sse_alive["s1"] /\ sse_pc["s1"] \in {"registered", "merged", "yielded"})
        ~> ("s1" \notin Registered)

\* the same, leaving aside the runs in which the model has used up its ticks:
\* it fails as well, the feed does not have to deliver another tick
C20_RemovedWhileTicksRemain ==
    (~sse_alive["s1"]) ~> ("s1" \notin Registered \/ ticks = MaxSubTicks)

-----------------------------------------------------------------------------
\* data_lock: handle_data and prices_snapshot statement by statement.  The
\* ingestion thread holds data_lock from the with statement of handle_data to
\* the end of its block; the request thread of /prices holds it while it
\* builds merged, and formats the candles after it has released it.

RaceData ==
    { [m |-> "qsd", p_len |-> 2, n |-> SYMBOL, lp |-> p, volume |-> 2] : p \in {1, 2} }

Seen(id, c) == heap_seen \cup { << id, c >> }

\* handle_data up to the with statement: the early returns, the clock read
\* and the interval
HdEnter(data) ==
    /\ ws_pc = "idle"
    /\ Accepted(data)
    /\ ticks < MaxRaceTicks
    /\ hd_data' = data
    /\ hd_price' = data.lp
    /\ hd_interval' = get_chart_timeframe_interval(now)
    /\ ws_pc' = "wait_lock"
    /\ UNCHANGED << clockVars, tz_offset, timeframe_minute, stop_event, loopVars, codecVars,
                    ivVars, sse_alive, put_raises, candlesVars, client_lock, data_lock, heap_seen, prices_payload,
                    prices_part, aggVars, hd_copy, hubVars, sseVars, pricesVars, tickHist >>

\* with data_lock: the lock is taken
HdAcquire ==
    /\ ws_pc = "wait_lock"
    /\ data_lock = "free"
    /\ data_lock' = "ws"
    /\ ws_pc' = "locked"
    /\ UNCHANGED << clockVars, tz_offset, timeframe_minute, stop_event, loopVars, codecVars,
                    ivVars, sse_alive, put_raises, candlesVars, client_lock, hd_interval, heap_seen, prices_payload,
                    prices_part, aggVars, hd_copy, hd_price, hd_data, hubVars, sseVars,
                    pricesVars, tickHist >>

\* the interval changed: the in-progress candle, if any, is appended to the
\* window and candle_final is pushed
HdFinalize ==
    /\ ws_pc = "locked"
    /\ StartsNewCandle(hd_interval)
    /\ IF current_candle # None
       THEN /\ candle_window' = DequeAppend(candle_window, current_candle)
            /\ push_to_clients([type   |-> "candle_final",
                                candle |-> format_candle_for_client(heap[current_candle])])
            /\ published' = << [type   |-> "candle_final",
                                candle |-> format_candle_for_client(heap[current_candle])] >>
       ELSE /\ UNCHANGED << candle_window, hubVars >>
            /\ published' = << >>
    /\ ws_pc' = "new_candle"
    /\ UNCHANGED << clockVars, tz_offset, timeframe_minute, stop_event, loopVars, codecVars,
                    ivVars, sse_alive, put_raises, candlesVars, client_lock, raceVars, heap, current_candle,
                    current_interval, hd_copy, hd_price, hd_data, sseVars, pricesVars,
                    folded, folded_vol, folded_conn, ticks, last_tick_time, crossings >>

\* current_candle = {...}; current_interval = interval
HdNewCandle ==
    /\ ws_pc = "new_candle"
    /\ heap' = Append(heap, NewCandle(hd_interval, hd_price, hd_data.volume))
    /\ current_candle' = Len(heap) + 1
    /\ current_interval' = hd_interval
    /\ heap_seen' = Seen(Len(heap) + 1, NewCandle(hd_interval, hd_price, hd_data.volume))
    /\ folded' = << hd_price >>
    /\ folded_vol' = << hd_data.volume >>
    /\ folded_conn' = << attempts >>
    /\ ws_pc' = "copy"
    /\ UNCHANGED << clockVars, tz_offset, timeframe_minute, stop_event, loopVars, codecVars,
                    ivVars, sse_alive, put_raises, candlesVars, client_lock, data_lock, hd_interval, prices_payload,
                    prices_part, candle_window, hd_copy, hd_price, hd_data, hubVars, sseVars,
                    pricesVars, published, ticks, last_tick_time, crossings >>

\* one store into the in-progress candle dict
HdStore(c) ==
    /\ heap' = [heap EXCEPT ![current_candle] = c]
    /\ heap_seen' = Seen(current_candle, c)
    /\ UNCHANGED << clockVars, tz_offset, timeframe_minute, stop_event, loopVars, codecVars,
                    ivVars, sse_alive, put_raises, candlesVars, client_lock, data_lock, hd_interval, prices_payload,
                    prices_part, candle_window, current_candle, current_interval, hd_copy,
                    hd_price, hd_data, hubVars, sseVars, pricesVars, ticks, last_tick_time,
                    crossings >>

\* current_candle['high'] = max(current_candle['high'], price)
HdSetHigh ==
    /\ ws_pc = "locked"
    /\ ~StartsNewCandle(hd_interval)
    /\ HdStore([heap[current_candle] EXCEPT !.high = Max2(@, hd_price)])
    /\ ws_pc' = "set_low"
    /\ published' = << >>
    /\ UNCHANGED << folded, folded_vol, folded_conn >>

\* current_candle['low'] = min(current_candle['low'], price)
HdSetLow ==
    /\ ws_pc = "set_low"
    /\ HdStore([heap[current_candle] EXCEPT !.low = Min2(@, hd_price)])
    /\ ws_pc' = "set_close"
    /\ UNCHANGED << published, folded, folded_vol, folded_conn >>

\* current_candle['close'] = price
HdSetClose ==
    /\ ws_pc = "set_close"
    /\ HdStore([heap[current_candle] EXCEPT !.close = hd_price])
    /\ ws_pc' = "set_volume"
    /\ folded' = Append(folded, hd_price)
    /\ folded_vol' = Append(folded_vol, hd_data.volume)
    /\ folded_conn' = Append(folded_conn, attempts)
    /\ UNCHANGED published

\* if volume: current_candle['volume'] = volume
HdSetVolume ==
    /\ ws_pc = "set_volume"
    /\ HdStore([heap[current_candle] EXCEPT
                   !.volume = IF hd_data.volume # None /\ hd_data.volume # 0
                              THEN hd_data.volume ELSE @])
    /\ ws_pc' = "copy"
    /\ UNCHANGED << published, folded, folded_vol, folded_conn >>

\* candle_copy = dict(current_candle), and the with block ends
HdCopyRelease ==
    /\ ws_pc = "copy"
    /\ hd_copy' = heap[current_candle]
    /\ data_lock' = "free"
    /\ ws_pc' = "push_update"
    /\ ticks' = ticks + 1
    /\ crossings' = IF last_tick_time # None /\ FloorBucket(now) # FloorBucket(last_tick_time)
                    THEN crossings + 1 ELSE crossings
    /\ last_tick_time' = now
    /\ UNCHANGED << clockVars, tz_offset, timeframe_minute, stop_event, loopVars, codecVars,
                    ivVars, sse_alive, put_raises, candlesVars, client_lock, hd_interval, heap_seen, prices_payload,
                    prices_part, aggVars, hd_price, hd_data, hubVars, sseVars, pricesVars,
                    published, folded, folded_vol, folded_conn >>

\* prices_snapshot(): with data_lock, merged is built
PricesReadLocked ==
    /\ data_lock = "free"
    /\ PricesReadMerged

\* the subscripts and the get of format_candle_for_client, in the order in
\* which it evaluates them
FormatReads == << "volume", "timestamp", "open", "high", "low", "close", "timestamp" >>

\* the dict format_candle_for_client returns for the values it has read
FormatParts(p) ==
    [ ts     |-> p[2] * 1000,
      open   |-> p[3],
      high   |-> p[4],
      low    |-> p[5],
      close  |-> p[6],
      volume |-> IF p[1] > VolumeCap \/ p[1] < 0 THEN 0 ELSE p[1],
      ts_ist |-> p[7] + IstOffset ]

\* prices_snapshot(): format_candle_for_client(c) reads one more key of c,
\* and after the last one the dict is appended to payload
PricesFormatRead ==
    /\ prices_pc = "merged"
    /\ Len(prices_payload) < Len(prices_merged)
    /\ LET c == heap[prices_merged[Len(prices_payload) + 1]]
           read == Append(prices_part, c[FormatReads[Len(prices_part) + 1]])
       IN  IF Len(read) < Len(FormatReads)
           THEN /\ prices_part' = read
                /\ UNCHANGED prices_payload
           ELSE /\ prices_part' = << >>
                /\ prices_payload' = Append(prices_payload, FormatParts(read))
    /\ UNCHANGED << clockVars, tz_offset, timeframe_minute, stop_event, loopVars, codecVars,
                    ivVars, sse_alive, put_raises, candlesVars, client_lock, data_lock, hd_interval, heap_seen, aggVars,
                    hdVars, hubVars, sseVars, pricesVars, tickHist >>

\* prices_snapshot(): payload.sort(...) and the response
PricesRespondPayload ==
    /\ prices_pc = "merged"
    /\ Len(prices_payload) = Len(prices_merged)
    /\ prices_resp' = SortByTs(prices_payload)
    /\ prices_ver' = ticks
    /\ prices_pc' = "idle"
    /\ prices_merged' = << >>
    /\ prices_payload' = << >>
    /\ UNCHANGED << clockVars, tz_offset, timeframe_minute, stop_event, loopVars, codecVars,
                    ivVars, sse_alive, put_raises, candlesVars, client_lock, data_lock, hd_interval, heap_seen,
                    prices_part, aggVars, hdVars, hubVars, sseVars, prices_read_ver, tickHist >>

InitRace == InitCommon

NextRace ==
    \/ \E d \in ClockSteps : now + d < 60 * timeframe_minute * (MaxRaceBuckets + 1) /\ ClockAdvance(d)
    \/ \E data \in RaceData : HdEnter(data)
    \/ HdAcquire
    \/ HdFinalize
    \/ HdNewCandle
    \/ HdSetHigh
    \/ HdSetLow
    \/ HdSetClose
    \/ HdSetVolume
    \/ HdCopyRelease
    \/ HandleDataPushUpdate
    \/ HandleDataPushTicker
    \/ PricesReadLocked
    \/ PricesFormatRead
    \/ PricesRespondPayload

SpecRace == InitRace /\ [][NextRace]_vars

\* C21: every candle of a /prices response is the value some candle dict of
\* the aggregator held at one instant; no served candle mixes fields read
\* before and after a tick.
C21_SnapshotIsInstant ==
    \A i \in 1..Len(prices_resp) :
        \E e \in heap_seen : prices_resp[i] = format_candle_for_client(e[2])

\* a consequence of C21: no served candle closes above its high
C21_ServedCloseBelowHigh ==
    \A i \in 1..Len(prices_resp) : prices_resp[i].close <= prices_resp[i].high

\* C22: whenever handle_data calls push_to_clients, the ingestion thread does
\* not hold data_lock.
C22_PublishOutsideLock ==
    [][(published' # published /\ published' # << >>) => data_lock = "free"]_vars

\* the pushes of candle_update and ticker do happen outside the lock
C22_UpdateOutsideLock ==
    [][(published' # published /\ Len(published') >= 1
          /\ published'[Len(published')].type \in {"candle_update", "ticker"})
       => (data_lock = "free" /\ data_lock' = "free")]_vars

-----------------------------------------------------------------------------
\* Finalized candles

\* C23: one candle is in progress at a time, it is not one of the candles of
\* candle_window, and no tick changes a candle that has been appended to
\* candle_window: a tick writes to the in-progress candle only.
C23_FinalizedImmutable ==
    [][/\ \A i \in 1..Len(candle_window) : heap'[candle_window[i]] = heap[candle_window[i]]
       /\ \A id \in 1..Len(heap) : id # current_candle => heap'[id] = heap[id]
       /\ current_candle' # None =>
             \A i \in 1..Len(candle_window') : candle_window'[i] # current_candle']_vars

\* the window is full of finalized candles, and the candle that followed them
\* has been updated by a second tick
C23_Witness ==
    /\ Len(candle_window) = max_candle_window_len
    /\ Len(folded) >= 2
    /\ heap[current_candle].close # heap[current_candle].open

-----------------------------------------------------------------------------
\* The handshake of on_open over the connection attempts of ws_connect_loop,
\* on a socket that stays up and on one that goes down while on_open sends

InitHandshake ==
    /\ InitApp /\ LiveConfig /\ IdleLoop /\ IdleInterval /\ IdleStream
    /\ codec_payloads = << >>
    /\ codec_msg = << >>
    /\ codec_pc = "decoded"
    /\ codec_out = << >>
    /\ send_fails \in BOOLEAN
    /\ msg_sent = << >>
    /\ msg_handled = << >>
    /\ msg_raised = "none"

NextHandshake == NextLoop

SpecHandshake == InitHandshake /\ [][NextHandshake]_vars

HandshakeOrder ==
    << "set_auth_token", "chart_create_session", "quote_create_session", "quote_set_fields",
       "quote_add_symbols", "quote_fast_symbols", "resolve_symbol", "create_series" >>

SentBefore(i, func) == \E j \in 1..(i - 1) : hs_sent[j].m = func

\* C24: the handshake messages of a connection are sent in the fixed order
\* set_auth_token, chart_create_session, quote_create_session,
\* quote_set_fields, quote_add_symbols, quote_fast_symbols, resolve_symbol,
\* create_series, all of them when the socket stays up; quote_add_symbols and
\* resolve_symbol are sent only after quote_create_session and
\* chart_create_session have been sent on the same connection.
C24_HandshakeOrder ==
    /\ Len(hs_sent) <= Len(HandshakeOrder)
    /\ \A i \in 1..Len(hs_sent) : hs_sent[i].m = HandshakeOrder[i]
    /\ (loop_pc = "open" /\ ~send_fails) => Len(hs_sent) = Len(HandshakeOrder)
    /\ loop_pc = "connecting" => hs_sent = << >>
    /\ \A i \in 1..Len(hs_sent) :
          hs_sent[i].m \in {"quote_add_symbols", "resolve_symbol"} =>
             /\ SentBefore(i, "quote_create_session")
             /\ SentBefore(i, "chart_create_session")

\* the second connection has sent its whole handshake
C24_Witness ==
    /\ loop_pc = "open"
    /\ opens = 2
    /\ Len(hs_sent) = Len(HandshakeOrder)
    /\ hs_sent[7].m = "resolve_symbol"

ChartMethods == { "chart_create_session", "resolve_symbol", "create_series" }
QuoteMethods == { "quote_create_session", "quote_set_fields", "quote_add_symbols",
                  "quote_fast_symbols" }

\* C25: each connection attempt creates its own pair of session ids (two
\* generate_session calls per attempt, none carried over from the attempt
\* before), and every handshake message of a connection carries the ids of
\* that connection's pair.
C25_FreshSessions ==
    /\ [](/\ mints = 2 * attempts
          /\ \A i \in 1..Len(hs_sent) :
                /\ hs_sent[i].m \in ChartMethods => hs_sent[i].p[1] = tv_session
                /\ hs_sent[i].m \in QuoteMethods => hs_sent[i].p[1] = tv_quote_session)
    /\ [][attempts' # attempts => (mints' = mints + 2 /\ hs_sent' = << >>)]_vars

\* a third attempt, after two that reached Open, has drawn ids and sent
\* handshake messages with them
C25_Witness ==
    /\ attempts = 3
    /\ opens = 3
    /\ tv_session = "cs_b"
    /\ tv_quote_session = "qs_a"
    /\ Len(hs_sent) >= 3

-----------------------------------------------------------------------------
\* The inbound stream: run_forever calls on_message once for each message the
\* socket delivers, in order.  Two messages arrive: either the text of the
\* peer's frames cut in two inside a payload, or a message with a frame whose
\* length field is not a number followed by a well-formed message.

\* the numbers of characters after which a cut of EncodeAll(ps) falls inside
\* the payload of a frame, off characters having gone before
RECURSIVE PayloadCutsFrom(_, _)
PayloadCutsFrom(ps, off) ==
    IF ps = << >> THEN {}
    ELSE LET frame == Encode(Head(ps))
             header == Len(frame) - Len(Head(ps))
         IN  { off + header + j : j \in 1 .. (Len(Head(ps)) - 1) }
             \cup PayloadCutsFrom(Tail(ps), off + Len(frame))

\* x, the empty text and 1x: what int() rejects
BadLengths == { << "x" >>, << >>, << "1", "x" >> }

\* the frame with that length field
BadFrame(len_str) == Marker \o len_str \o Marker \o EmptyObject

InitStream ==
    /\ InitApp /\ LiveConfig /\ IdleInterval /\ FirstSession
    /\ loop_pc = "open"
    /\ backoff = BaseBackoff
    /\ sleep_for = None
    /\ connected = TRUE
    /\ attempts = 1
    /\ opened = TRUE
    /\ sleeps = 0
    /\ opens = 1
    /\ stop_event = FALSE
    /\ codec_payloads = << >>
    /\ \/ /\ stream_kind = "split"
          /\ \E ps \in SeqsUpTo(MessagePayloads, MaxStreamFrames) :
                \E k \in PayloadCutsFrom(ps, 0) :
                   /\ stream_in = << ps >>
                   /\ codec_msg = SliceTo(EncodeAll(ps), k)
                   /\ inbound = << SliceFrom(EncodeAll(ps), k) >>
       \/ /\ stream_kind = "badlen"
          /\ \E pre, post \in SeqsUpTo(MessagePayloads, 1) :
                \E next \in SeqsUpTo(MessagePayloads, 1) \ { << >> } :
                   \E len_str \in BadLengths :
                      /\ stream_in = << pre, post, next >>
                      /\ codec_msg = EncodeAll(pre) \o BadFrame(len_str) \o EncodeAll(post)
                      /\ inbound = << EncodeAll(next) >>
    /\ codec_pc = "received"
    /\ codec_out = << >>
    /\ send_fails \in BOOLEAN
    /\ msg_sent = << >>
    /\ msg_handled = << >>
    /\ msg_raised = "none"
    /\ stream_handled = << >>

\* the socket delivers the next message
Receive ==
    /\ codec_pc = "handled"
    /\ loop_pc = "open"
    /\ inbound # << >>
    /\ codec_msg' = Head(inbound)
    /\ inbound' = Tail(inbound)
    /\ codec_pc' = "received"
    /\ UNCHANGED << codec_payloads, codec_out, msgVars, stream_kind, stream_in, stream_handled,
                    tz_offset, timeframe_minute, stop_event, loopVars, ivVars, appVars >>

NextStream ==
    \/ on_message
    \/ Receive

SpecStream == InitStream /\ [][NextStream]_vars

StreamDone == codec_pc = "handled" /\ inbound = << >>

NoHeartbeat(ps) == \A i \in 1..Len(ps) : ~IsHeartbeatChunk(ps[i])

\* C26: when the text of the peer's frames arrives in two messages, the first
\* ending inside a payload, every JSON frame of the text is passed to
\* handle_data exactly once, the cut one included.
C26_SplitFrameCompleted ==
    (stream_kind = "split" /\ StreamDone /\ NoHeartbeat(stream_in[1]))
        => stream_handled = SelectSeq(stream_in[1], IsJson)

\* the heartbeat branch that precedes the frame loop sends the whole message
\* back and returns (see C11, C12)
EchoReturns(message) ==
    /\ StartsWith(message, Marker)
    /\ Occurrences(message, Marker \o HeartbeatPrefix) # {}
    /\ SplitCount(message) >= 3
    /\ ~send_fails

-----------------------------------------------------------------------------
\* Delivery failures of push_to_clients: queues that fill up, and queues
\* whose put_nowait raises an exception other than queue.Full

InitDelivery ==
    /\ put_raises \in SUBSET Subs
    /\ HubStart

NextDelivery ==
    \/ \E data \in HubData : ticks < 1 + MaxDeliveryTicks /\ HandleDataLocked(data)
    \/ HandleDataPushUpdate
    \/ HandleDataPushTicker
    \/ \E s \in Subs : ConnectsNext(s) /\ SseConnect(s)
    \/ \E s \in Subs : SseReadMerged(s)
    \/ \E s \in Subs : SseYieldSnapshot(s)
    \/ \E s \in Subs : SseDeliver(s)

SpecDelivery == InitDelivery /\ [][NextDelivery]_vars

\* a step in which handle_data calls push_to_clients; the event is the last
\* one of published
PushStep == ws_pc' # ws_pc /\ published' # << >>

\* C27 as stated: a registered subscriber whose queue is full, or whose queue
\* raises on put, is no longer in client_queues after the push.
C27_FailedSubscriberUnregistered ==
    [][PushStep =>
          \A s \in Registered :
             (Len(queue[s]) >= QueueMax \/ s \in put_raises) => s \notin Registered']_vars

\* C27, amended: a push leaves a subscriber whose queue is full registered,
\* with its queue as it was; it unregisters a subscriber whose put raises
\* another exception; every other registered subscriber gets the event, and
\* the candles are what they were.
C27_DeliveryFailureIsolated ==
    [][PushStep =>
          /\ \A s \in Registered :
                IF s \in put_raises
                THEN s \notin Registered' /\ queue'[s] = queue[s]
                ELSE /\ s \in Registered'
                     /\ queue'[s] = IF Len(queue[s]) < QueueMax
                                    THEN Append(queue[s], published'[Len(published')])
                                    ELSE queue[s]
          /\ ws_pc \in {"push_update", "push_ticker"} => UNCHANGED aggVars]_vars

\* s1's queue was full at a push and s1 is still registered, s2's put raised
\* and s2 is gone
C27_Witness ==
    /\ put_raises = {"s2"}
    /\ "s1" \in ever_full
    /\ "s1" \in Registered
    /\ sse_pc["s2"] # "none"
    /\ "s2" \notin Registered
    /\ Len(queue["s1"]) = QueueMax
    /\ queue["s2"] = << >>

-----------------------------------------------------------------------------
\* The HTTP handlers and the fan-out read the candles only

\* C28: a step of /prices, of /events or of the fan-out of push_to_clients,
\* and any other step that is not the folding of a tick, leaves every candle
\* dict, candle_window and the in-progress candle as they were.
C28_ReadsLeaveCandles ==
    [][ticks' = ticks => UNCHANGED << heap, candle_window, current_candle, current_interval >>]_vars

\* /prices and /events have both served a finalized candle and the candle in
\* progress with the capped volume 0, and the dicts still hold the volume 11
C28_Witness ==
    /\ Len(prices_resp) = 2
    /\ \A i \in 1..2 : prices_resp[i].volume = 0
    /\ sse_pc["s1"] = "streaming"
    /\ Len(sse_written["s1"]) >= 1
    /\ Len(candle_window) = 1
    /\ heap[candle_window[1]].volume > VolumeCap
    /\ heap[current_candle].volume > VolumeCap


-----------------------------------------------------------------------------
\* The aggregator and the /candles route of main.py (hosted_app/main.py has
\* the same two functions): handle_data folds ticks without a lock and without
\* a fan-out, get_candle_window serves the window

CandlesData ==
    { [m |-> "qsd", p_len |-> 2, n |-> SYMBOL, lp |-> p, volume |-> 2] : p \in {1, 2} }

\* c.get('timestamp_ist') of the dict with identity id
IstOf(id) == IF id \in 1..Len(heap_ist) THEN heap_ist[id] ELSE None

\* dt_utc.astimezone(IST).strftime("%Y-%m-%dT%H:%M:%S"), as seconds of IST wall time
IstString(timestamp) == timestamp + IstOffset

\* the dict as the JSON response shows it
WithIst(c, ist) ==
    [timestamp |-> c.timestamp, open |-> c.open, high |-> c.high, low |-> c.low,
     close |-> c.close, volume |-> c.volume, timestamp_ist |-> ist]

\* TradingViewWS.handle_data of main.py for an accepted tick
HandleDataMain(data) ==
    /\ Accepted(data)
    /\ ticks < MaxCandlesTicks
    /\ LET price    == data.lp
           volume   == data.volume
           interval == get_chart_timeframe_interval(now)
       IN  IF StartsNewCandle(interval)
           THEN /\ candle_window' = IF current_candle # None
                                    THEN DequeAppend(candle_window, current_candle)
                                    ELSE candle_window
                /\ heap' = Append(heap, NewCandle(interval, price, volume))
                /\ current_candle' = Len(heap) + 1
                /\ current_interval' = interval
                /\ folded' = << price >>
                /\ folded_vol' = << volume >>
                /\ folded_conn' = << attempts >>
           ELSE /\ heap' = [heap EXCEPT ![current_candle] = UpdateCandle(@, price, volume)]
                /\ folded' = Append(folded, price)
                /\ folded_vol' = Append(folded_vol, volume)
                /\ folded_conn' = Append(folded_conn, attempts)
                /\ UNCHANGED << candle_window, current_candle, current_interval >>
    /\ ticks' = ticks + 1
    /\ crossings' = IF last_tick_time # None /\ FloorBucket(now) # FloorBucket(last_tick_time)
                    THEN crossings + 1 ELSE crossings
    /\ last_tick_time' = now
    /\ UNCHANGED << clockVars, cfgVars, hdVars, hubVars, sseVars, pricesVars, published >>

\* GET /candles: the list holds the stored dicts themselves, and the loop
\* assigns c['timestamp_ist'] on each of them
get_candle_window ==
    /\ LET candles == Merged
           stamped == { candles[i] : i \in 1..Len(candles) }
       IN  /\ heap_ist' = [id \in 1..Len(heap) |->
                              IF id \in stamped THEN IstString(heap[id].timestamp)
                              ELSE IstOf(id)]
           /\ candles_resp' = Reverse([i \in 1..Len(candles) |->
                                         WithIst(heap[candles[i]], heap_ist'[candles[i]])])
    /\ UNCHANGED << now, regressions, aggVars, hdVars, hubVars, sseVars, pricesVars, tickHist,
                    sse_alive, raceVars, put_raises, client_lock, tz_offset, timeframe_minute,
                    stop_event,
                    loopVars, codecVars, ivVars >>

InitCandles == InitCommon

NextCandles ==
    \/ \E d \in ClockSteps : ClockAdvance(d)
    \/ \E data \in CandlesData : HandleDataMain(data)
    \/ get_candle_window

SpecCandles == InitCandles /\ [][NextCandles]_vars

\* the stored candle records, oldest first, each with all of its keys
StoredRecords == [i \in 1..Len(Merged) |-> << heap[Merged[i]], IstOf(Merged[i]) >>]

\* C28, as stated for every route: a step that folds no tick (a /candles
\* request is one) leaves every key of every stored candle record as it was
C28_RequestsLeaveCandles == [][ticks' = ticks => StoredRecords' = StoredRecords]_vars

\* the OHLCV keys at least survive a /candles request
C28_CandlesKeepsOhlcv == [][ticks' = ticks => UNCHANGED aggVars]_vars


-----------------------------------------------------------------------------
\* Specification of an upstream outage: ws_connect_loop drives the socket,
\* handle_data runs only while the socket is open (run_forever dispatches
\* on_message, and on_close comes from the same thread once the handler has
\* returned), and /prices requests are served while the socket is down; no signal
\* stops the loop, and of the session ids generate_session can draw one pair is
\* followed (handle_data never reads them)

OutageData ==
    { [m |-> "qsd", p_len |-> 2, n |-> SYMBOL, lp |-> p, volume |-> 2] : p \in {1, 3} }

InitOutage == InitCommon

\* Buggy variant used to test the properties: run_forever returns while a
\* callback it dispatched is still running.
RunForeverReturn_detached == on_close

\* run_forever dispatches on_message on the thread that called it, so it reaches
\* on_close and returns only between two callbacks
RunForeverReturn == ws_pc = "idle" /\ on_close

\* the socket is not open: connecting, failed, closed, sleeping or between attempts
Outage == loop_pc # "open"

NextOutage ==
    \/ attempts < MaxOutageAttempts /\ LoopEnter
    \/ LoopConnect /\ tv_session' = generate_session("cs", "a")
                   /\ tv_quote_session' = generate_session("qs", "a")
    \/ ConnectFail
    \/ on_open
    \/ RunForeverReturn
    \/ LoopSleep
    \/ LoopWake
    \/ \E d \in ClockSteps :
          now + d < 60 * timeframe_minute * (MaxOutageBuckets + 1) /\ ClockAdvance(d)
    \/ \E data \in OutageData :
          loop_pc = "open" /\ ticks < MaxOutageTicks /\ HandleDataLocked(data)
    \/ HandleDataPushUpdate
    \/ HandleDataPushTicker
    \/ Outage /\ PricesReadMerged
    \/ Outage /\ PricesRespond

SpecOutage == InitOutage /\ [][NextOutage]_vars

\* the body /prices would respond with now
ServedNow == SortByTs(FormatAll(Merged))

\* the tick being folded arrives on another connection than the previous one
FirstTickOfConnection ==
    /\ ticks' = ticks + 1
    /\ current_candle # None
    /\ attempts # folded_conn[Len(folded_conn)]

\* C29: no step taken while the socket is not open, and no step that opens or
\* closes it, changes candle_window or a candle; a /prices response read and
\* formatted during the outage is the snapshot of the state before the outage;
\* and the first tick of the next connection is folded into the candle the
\* outage left (same bucket) or finalizes that candle as it was (new bucket)
C29_OutageKeepsCandles ==
    /\ [][Outage \/ Outage' => UNCHANGED aggVars]_vars
    /\ [][Outage /\ prices_pc = "merged" /\ prices_pc' = "idle" /\ prices_read_ver = ticks
            => prices_resp' = ServedNow]_vars
    /\ [][FirstTickOfConnection =>
            IF current_interval' = current_interval
            THEN /\ heap' = [heap EXCEPT ![current_candle] = UpdateCandle(@, hd_price', hd_data'.volume)]
                 /\ UNCHANGED << candle_window, current_candle >>
            ELSE /\ candle_window' = DequeAppend(candle_window, current_candle)
                 /\ SubSeq(heap', 1, Len(heap)) = heap]_vars

\* a candle opened on the first connection, served by /prices, and updated by
\* the first tick of the second connection after a backoff sleep
C29_Witness ==
    /\ folded_conn = << 1, 2 >>
    /\ sleeps >= 1
    /\ prices_ver = 1
    /\ prices_resp # << >>
    /\ heap[current_candle].open = folded[1]
    /\ heap[current_candle].close = folded[2]
    /\ folded[1] # folded[2]


\* a handle_data call is between its first and its last statement
HandlerRunning == ws_pc # "idle"

\* C38: at most one upstream connection can invoke handle_data.  A handle_data
\* call in progress belongs to the newest connection, whose socket is open; a
\* tick is folded only when no other handle_data call is in progress; and
\* ws_connect_loop creates the next connection only when every earlier attempt
\* has returned from run_forever (and slept), with no handler still running
C38_SingleWriter ==
    /\ [](HandlerRunning =>
             /\ loop_pc = "open"
             /\ folded_conn[Len(folded_conn)] = attempts)
    /\ [][ticks' # ticks => ~HandlerRunning /\ loop_pc = "open" /\ ticks' = ticks + 1]_vars
    /\ [][attempts' # attempts =>
            /\ attempts' = attempts + 1
            /\ loop_pc = "create"
            /\ ~HandlerRunning
            /\ sleeps = attempts]_vars

\* the handler of the second connection is running, after the first connection
\* folded a tick and returned
C38_Witness ==
    /\ attempts = 2
    /\ sleeps = 1
    /\ HandlerRunning
    /\ folded_conn = << 1, 2 >>


-----------------------------------------------------------------------------
\* on_message frame by frame, with the handle_data call of each JSON frame
\* folding its tick: one message of up to MaxFrames frames on an open
\* connection, no subscriber, a clock that stands still

\* json.loads(chunk) for the objects of the alphabet, as the fields handle_data reads
JsonLoads(chunk) ==
    IF chunk \in TickObjects
    THEN [m |-> "qsd", p_len |-> 2, n |-> SYMBOL,
          lp |-> IF chunk = TickOne THEN 1 ELSE 3, volume |-> 2]
    ELSE IF chunk = QsdObject
    THEN [m |-> "qsd", p_len |-> 0, n |-> "", lp |-> None, volume |-> None]
    ELSE NoData

FramePayloads == { BadJson, QsdObject, NumberText } \cup TickObjects

\* Buggy variant used to test the properties: a chunk that is not JSON ends
\* the loop (break in place of continue).
AfterChunk_breaks(frames) ==
    IF IsJson(Head(frames).chunk) \/ IsHeartbeatChunk(Head(frames).chunk)
    THEN Tail(frames) ELSE << >>

\* continue, or the end of the loop body: the loop goes on with the rest
AfterChunk(frames) == Tail(frames)

InitFrames ==
    /\ InitApp /\ LiveConfig /\ IdleInterval /\ FirstSession /\ IdleStream
    /\ loop_pc = "open"
    /\ backoff = BaseBackoff
    /\ sleep_for = None
    /\ connected = TRUE
    /\ attempts = 1
    /\ opened = TRUE
    /\ sleeps = 0
    /\ opens = 1
    /\ stop_event = FALSE
    /\ codec_payloads \in SeqsUpTo(FramePayloads, MaxFrames)
    /\ codec_msg = EncodeAll(codec_payloads)
    /\ codec_pc = "received"
    /\ codec_out = << >>
    /\ IdleMessage

\* on_message up to the while loop; the chunks the loop will take
FramesBegin ==
    /\ codec_pc = "received"
    /\ loop_pc = "open"
    /\ ~EchoReturns(codec_msg)
    /\ codec_out' = FrameLoop(codec_msg, << >>)
    /\ codec_pc' = "dispatch"
    /\ UNCHANGED << codec_payloads, codec_msg, msgVars, streamVars, tz_offset, timeframe_minute,
                    stop_event, loopVars, ivVars, appVars >>

\* handle_data(data) from entry to return for an accepted tick, no subscriber
\* being registered
HandleDataWhole(data) ==
    LET price    == data.lp
        volume   == data.volume
        interval == get_chart_timeframe_interval(now)
        final    == [type   |-> "candle_final",
                     candle |-> format_candle_for_client(heap[current_candle])]
    IN  /\ IF StartsNewCandle(interval)
           THEN /\ candle_window' = IF current_candle # None
                                    THEN DequeAppend(candle_window, current_candle)
                                    ELSE candle_window
                /\ heap' = Append(heap, NewCandle(interval, price, volume))
                /\ current_candle' = Len(heap) + 1
                /\ current_interval' = interval
                /\ folded' = << price >>
                /\ folded_vol' = << volume >>
                /\ folded_conn' = << attempts >>
           ELSE /\ heap' = [heap EXCEPT ![current_candle] = UpdateCandle(@, price, volume)]
                /\ folded' = Append(folded, price)
                /\ folded_vol' = Append(folded_vol, volume)
                /\ folded_conn' = Append(folded_conn, attempts)
                /\ UNCHANGED << candle_window, current_candle, current_interval >>
        /\ hd_copy' = heap'[current_candle']
        /\ hd_price' = price
        /\ hd_data' = data
        /\ published' =
              (IF StartsNewCandle(interval) /\ current_candle # None THEN << final >> ELSE << >>)
              \o << [type |-> "candle_update", candle |-> format_candle_for_client(hd_copy')],
                    [type |-> "ticker", price |-> price, ts |-> now * 1000] >>
        /\ ticks' = ticks + 1
        /\ crossings' = IF last_tick_time # None /\ FloorBucket(now) # FloorBucket(last_tick_time)
                        THEN crossings + 1 ELSE crossings
        /\ last_tick_time' = now
        /\ UNCHANGED ws_pc

\* one turn of the while loop: the heartbeat reply, the json.loads that fails
\* (continue), or handle_data(data)
FramesDispatch ==
    /\ codec_pc = "dispatch"
    /\ codec_out # << >>
    /\ client_queues = << >>
    /\ LET chunk == Head(codec_out).chunk
       IN  /\ codec_out' = AfterChunk(codec_out)
           /\ IF IsHeartbeatChunk(chunk)
              THEN /\ msg_sent' = Append(msg_sent, Encode(chunk))
                   /\ UNCHANGED << msg_handled, msg_raised, loop_pc, aggVars, hdVars, tickHist >>
              ELSE IF ~IsJson(chunk)
              THEN UNCHANGED << msg_sent, msg_handled, msg_raised, loop_pc, aggVars, hdVars,
                                tickHist >>
              ELSE /\ msg_handled' = Append(msg_handled, chunk)
                   /\ msg_raised' = HandleDataCall(chunk)
                   /\ loop_pc' = IF HandleDataCall(chunk) = "none" THEN "open" ELSE "returned"
                   /\ IF HandleDataBody(chunk) = "none" /\ Accepted(JsonLoads(chunk))
                      THEN HandleDataWhole(JsonLoads(chunk))
                      ELSE UNCHANGED << aggVars, hdVars, tickHist >>
                   /\ UNCHANGED msg_sent
    /\ UNCHANGED << codec_pc, codec_payloads, codec_msg, send_fails, streamVars, tz_offset,
                    timeframe_minute, stop_event, tvVars, backoff, sleep_for, connected,
                    attempts, opened, sleeps, opens, ivVars, now, regressions, hubVars, sseVars,
                    pricesVars, sse_alive, extVars >>

\* the while test fails: on_message returns
FramesEnd ==
    /\ codec_pc = "dispatch"
    /\ codec_out = << >>
    /\ codec_pc' = "handled"
    /\ UNCHANGED << codec_payloads, codec_msg, codec_out, msgVars, streamVars, tz_offset,
                    timeframe_minute, stop_event, loopVars, ivVars, appVars >>

NextFrames ==
    \/ FramesBegin
    \/ FramesDispatch
    \/ FramesEnd

SpecFrames == InitFrames /\ [][NextFrames]_vars

IsTick(chunk) == chunk \in TickObjects

\* a payload json.loads rejects, or one handle_data cannot read or does not accept
Discarded(chunk) == ~IsJson(chunk) \/ HandleDataBody(chunk) # "none" \/ ~Accepted(JsonLoads(chunk))

TickPrices(ps) == [i \in 1..Len(ps) |-> JsonLoads(ps[i]).lp]

-----------------------------------------------------------------------------
\* data_lock and client_lock: every with statement of the ingestion thread
\* (handle_data, push_to_clients) and of the request threads (/prices, two
\* /events) as an acquire and a release.  The statements inside the blocks
\* take no other lock and do not block (put_nowait, list copies); what they
\* compute is left to the other specifications, the registration of the
\* queues is kept.  Ticks and requests keep arriving.

Threads == { "ws", "prices" } \cup Subs

\* what no acquire or release changes
lockRest == << now, regressions, aggVars, hd_copy, hd_price, hd_data, queue, ever_full,
               pub_since, sse_merged, sse_written, sse_read_ver, sse_yield_ver, prices_merged,
               prices_resp, prices_read_ver, prices_ver, tickHist, sse_alive, hd_interval,
               heap_seen, prices_payload, prices_part, put_raises, candlesVars, tz_offset,
               timeframe_minute, stop_event, loopVars, codecVars, ivVars >>

\* the position of a thread
Pc(t) == IF t = "ws" THEN ws_pc ELSE IF t = "prices" THEN prices_pc ELSE sse_pc[t]

\* the thread is at a with data_lock statement
WaitsData(t) == Pc(t) = IF t = "ws" THEN "wait_lock" ELSE "wait_data"

\* the thread is at a with client_lock statement
WaitsClient(t) ==
    IF t = "ws" THEN ws_pc \in { "final_wait", "update_wait", "ticker_wait" }
    ELSE t \in Subs /\ sse_pc[t] \in { "wait_client", "wait_remove" }

\* handle_data has accepted a tick and reaches with data_lock
LkTick ==
    /\ ws_pc = "idle"
    /\ ws_pc' = "wait_lock"
    /\ UNCHANGED << data_lock, client_lock, prices_pc, sse_pc, client_queues, lockRest >>

\* handle_data enters the block; in the rollover branch with a candle to
\* finalize it goes on to push_to_clients, data_lock held
LkHdAcquire ==
    /\ ws_pc = "wait_lock"
    /\ data_lock = "free"
    /\ data_lock' = "ws"
    /\ \E rollover \in BOOLEAN : ws_pc' = IF rollover THEN "final_wait" ELSE "locked"
    /\ UNCHANGED << client_lock, prices_pc, sse_pc, client_queues, lockRest >>

\* push_to_clients: with client_lock entered
LkPushAcquire ==
    /\ WaitsClient("ws")
    /\ client_lock = "free"
    /\ client_lock' = "ws"
    /\ ws_pc' = CASE ws_pc = "final_wait"  -> "final_push"
                  [] ws_pc = "update_wait" -> "update_push"
                  [] ws_pc = "ticker_wait" -> "ticker_push"
    /\ UNCHANGED << data_lock, prices_pc, sse_pc, client_queues, lockRest >>

\* push_to_clients: the block is left and the call returns
LkPushRelease ==
    /\ ws_pc \in { "final_push", "update_push", "ticker_push" }
    /\ client_lock' = "free"
    /\ ws_pc' = CASE ws_pc = "final_push"  -> "locked"
                  [] ws_pc = "update_push" -> "ticker_wait"
                  [] ws_pc = "ticker_push" -> "idle"
    /\ UNCHANGED << data_lock, prices_pc, sse_pc, client_queues, lockRest >>

\* handle_data leaves the with data_lock block and calls push_to_clients
LkHdRelease ==
    /\ ws_pc = "locked"
    /\ data_lock' = "free"
    /\ ws_pc' = "update_wait"
    /\ UNCHANGED << client_lock, prices_pc, sse_pc, client_queues, lockRest >>

\* a /prices request reaches with data_lock
LkPricesArrive ==
    /\ prices_pc = "idle"
    /\ prices_pc' = "wait_data"
    /\ UNCHANGED << data_lock, client_lock, ws_pc, sse_pc, client_queues, lockRest >>

LkPricesAcquire ==
    /\ prices_pc = "wait_data"
    /\ data_lock = "free"
    /\ data_lock' = "prices"
    /\ prices_pc' = "reading"
    /\ UNCHANGED << client_lock, ws_pc, sse_pc, client_queues, lockRest >>

\* merged is built, the block is left; the rest of the request takes no lock
LkPricesRelease ==
    /\ prices_pc = "reading"
    /\ data_lock' = "free"
    /\ prices_pc' = "idle"
    /\ UNCHANGED << client_lock, ws_pc, sse_pc, client_queues, lockRest >>

\* an /events request reaches with client_lock
LkSseArrive(s) ==
    /\ sse_pc[s] = "none"
    /\ sse_pc' = [sse_pc EXCEPT ![s] = "wait_client"]
    /\ UNCHANGED << data_lock, client_lock, ws_pc, prices_pc, client_queues, lockRest >>

\* with client_lock entered, in sse_events or in the finally block of gen
LkSseAcquire(s) ==
    /\ WaitsClient(s)
    /\ client_lock = "free"
    /\ client_lock' = s
    /\ sse_pc' = [sse_pc EXCEPT ![s] = IF @ = "wait_client" THEN "registering" ELSE "removing"]
    /\ UNCHANGED << data_lock, ws_pc, prices_pc, client_queues, lockRest >>

\* Buggy variant used to test the properties: the snapshot is read inside the
\* with client_lock block of the registration.
LkSseRegister_reads_inside(s) ==
    /\ sse_pc[s] = "registering"
    /\ client_queues' = Append(client_queues, s)
    /\ sse_pc' = [sse_pc EXCEPT ![s] = "wait_data"]
    /\ UNCHANGED << data_lock, client_lock, ws_pc, prices_pc, lockRest >>

\* client_queues.append(q), the block is left; gen starts and reaches with data_lock
LkSseRegister(s) ==
    /\ sse_pc[s] = "registering"
    /\ client_queues' = Append(client_queues, s)
    /\ client_lock' = "free"
    /\ sse_pc' = [sse_pc EXCEPT ![s] = "wait_data"]
    /\ UNCHANGED << data_lock, ws_pc, prices_pc, lockRest >>

LkSseReadAcquire(s) ==
    /\ sse_pc[s] = "wait_data"
    /\ data_lock = "free"
    /\ data_lock' = s
    /\ sse_pc' = [sse_pc EXCEPT ![s] = "reading"]
    /\ UNCHANGED << client_lock, ws_pc, prices_pc, client_queues, lockRest >>

\* merged is built, the block is left; the snapshot and the q.get loop take no lock
LkSseReadRelease(s) ==
    /\ sse_pc[s] = "reading"
    /\ data_lock' = IF data_lock = s THEN "free" ELSE data_lock
    /\ sse_pc' = [sse_pc EXCEPT ![s] = "streaming"]
    /\ UNCHANGED << client_lock, ws_pc, prices_pc, client_queues, lockRest >>

\* the loop ends (stop event, GeneratorExit): the finally block reaches with client_lock
LkSseLeave(s) ==
    /\ sse_pc[s] = "streaming"
    /\ sse_pc' = [sse_pc EXCEPT ![s] = "wait_remove"]
    /\ UNCHANGED << data_lock, client_lock, ws_pc, prices_pc, client_queues, lockRest >>

\* client_queues.remove(q), the block is left, the request is over
LkSseRemove(s) ==
    /\ sse_pc[s] = "removing"
    /\ client_queues' = RemoveFirst(client_queues, s)
    /\ client_lock' = IF client_lock = s THEN "free" ELSE client_lock
    /\ sse_pc' = [sse_pc EXCEPT ![s] = "none"]
    /\ UNCHANGED << data_lock, ws_pc, prices_pc, lockRest >>

InitLocks == InitCommon

NextLocks ==
    \/ LkTick
    \/ LkHdAcquire
    \/ LkPushAcquire
    \/ LkPushRelease
    \/ LkHdRelease
    \/ LkPricesArrive
    \/ LkPricesAcquire
    \/ LkPricesRelease
    \/ \E s \in Subs :
          \/ LkSseArrive(s)
          \/ LkSseAcquire(s)
          \/ LkSseRegister(s)
          \/ LkSseReadAcquire(s)
          \/ LkSseReadRelease(s)
          \/ LkSseLeave(s)
          \/ LkSseRemove(s)

\* Every thread keeps running: a thread inside a block leaves it, and a thread
\* at a with statement that finds the lock free again and again gets it.
\* Nothing makes a tick or a request arrive, or a subscriber leave.
LockFairness ==
    /\ SF_vars(LkHdAcquire)
    /\ SF_vars(LkPushAcquire)
    /\ SF_vars(LkPricesAcquire)
    /\ WF_vars(LkPushRelease)
    /\ WF_vars(LkHdRelease)
    /\ WF_vars(LkPricesRelease)
    /\ \A s \in Subs :
          /\ SF_vars(LkSseAcquire(s))
          /\ SF_vars(LkSseReadAcquire(s))
          /\ WF_vars(LkSseRegister(s))
          /\ WF_vars(LkSseReadRelease(s))
          /\ WF_vars(LkSseRemove(s))

SpecLocks == InitLocks /\ [][NextLocks]_vars /\ LockFairness

-----------------------------------------------------------------------------
\* One /events subscriber and ticks of rising price in one bucket, starting
\* from the hub's first candle: what the queue holds when the snapshot is read

StaleData ==
    { [m |-> "qsd", p_len |-> 2, n |-> SYMBOL, lp |-> p, volume |-> 2] : p \in {2, 3} }

InitStale == Init

NextStale ==
    \/ \E data \in StaleData : ticks < 1 + MaxStaleTicks /\ HandleDataLocked(data)
    \/ HandleDataPushUpdate
    \/ HandleDataPushTicker
    \/ SseConnect("s1")
    \/ SseReadMerged("s1")
    \/ SseYieldSnapshot("s1")
    \/ SseDeliver("s1")

SpecStale == InitStale /\ [][NextStale]_vars

CandleTypes == { "candle_update", "candle_final" }

\* C37: a candle message written after the snapshot is not older than the
\* snapshot: for the candle of the snapshot with the same ts its high, which
\* only grows while a candle is in progress, is not below the snapshot's
C37_EventsNotOlderThanSnapshot ==
    \A s \in Subs : \A i \in 2..Len(sse_written[s]) :
        sse_written[s][i].type \in CandleTypes =>
            \A j \in 1..Len(sse_written[s][1].candles) :
                sse_written[s][1].candles[j].ts = sse_written[s][i].candle.ts
                    => sse_written[s][i].candle.high >= sse_written[s][1].candles[j].high

\* the same claim at the moment of the read: no event published earlier is
\* waiting in the subscriber's queue
C37_QueueEmptyAtRead ==
    [][\A s \in Subs : (sse_pc[s] = "registered" /\ sse_pc'[s] = "merged") => queue[s] = << >>]_vars

\* what does hold: a candle message is never newer than the aggregator, and
\* one published after the read is not older than the snapshot
C37_PublishedAfterReadIsNewer ==
    [][\A s \in Subs :
          (published' # published /\ published' # << >> /\ SnapshotRead(s)
              /\ published'[Len(published')].type \in CandleTypes)
          => \A j \in 1..Len(sse_merged[s]) :
                heap[sse_merged[s][j]].timestamp * 1000 = published'[Len(published')].candle.ts
                   => published'[Len(published')].candle.high >= heap[sse_merged[s][j]].high]_vars


-----------------------------------------------------------------------------
\* The aggregator under a wall clock that can step back (time.time() follows
\* the system clock): ticks of two prices, the clock moving a bucket forward
\* or, at most MaxRegress times, a bucket back; no subscriber

RegressData ==
    { [m |-> "qsd", p_len |-> 2, n |-> SYMBOL, lp |-> p, volume |-> 2] : p \in {1, 3} }

InitRegress == InitCommon

NextRegress ==
    \/ \E d \in ClockSteps :
          now + d < 60 * timeframe_minute * (MaxRegressBuckets + 1) /\ ClockAdvance(d)
    \/ \E d \in ClockSteps : ClockStepBack(d)
    \/ \E data \in RegressData : ticks < MaxRegressTicks /\ HandleDataLocked(data)
    \/ HandleDataPushUpdate
    \/ HandleDataPushTicker

SpecRegress == InitRegress /\ [][NextRegress]_vars

\* periodStart of the candles of the snapshot, in snapshot order
PeriodStarts == [i \in 1..Len(Merged) |-> heap[Merged[i]].timestamp]

\* no two candles of the snapshot have the same periodStart
DistinctStarts ==
    \A i, j \in 1..Len(PeriodStarts) : i # j => PeriodStarts[i] # PeriodStarts[j]

\* the snapshot is in non-decreasing periodStart order
OrderedStarts ==
    \A i, j \in 1..Len(PeriodStarts) : i < j => PeriodStarts[i] <= PeriodStarts[j]

\* C39, as stated: whatever the tick times, a clock that steps back included,
\* the candles of candle_window plus the in-progress candle have distinct
\* periodStarts and stand in non-decreasing periodStart order
C39_DistinctOrdered == DistinctStarts /\ OrderedStarts

\* the part that holds: as long as the clock has not stepped back
C39_OrderedWhileMonotonic == regressions = 0 => DistinctStarts /\ OrderedStarts

\* the order alone
C39_Ordered == OrderedStarts

\* the distinctness alone
C39_Distinct == DistinctStarts


-----------------------------------------------------------------------------
\* handle_data with the exceptions its statements can raise.  "lp" is whatever
\* JSON value TradingView sends; a string that is no number passes the
\* "price is None" test and is stored in the candle, float() of it raises
\* ValueError in format_candle_for_client, and max() or min() of it and a number
\* raises TypeError.  The except clause of handle_data catches either and the
\* statements after the raising one are not executed.

\* float(v) raises
FloatRaises(v) == v = TextPrice

\* format_candle_for_client(c) raises: float() of open, high, low or close
\* (the volume has its own try/except)
FormatRaises(c) ==
    FloatRaises(c.open) \/ FloatRaises(c.high) \/ FloatRaises(c.low) \/ FloatRaises(c.close)

\* max(a, b) or min(a, b) raises: a str and a number do not compare
CompareRaises(a, b) == (a = TextPrice) # (b = TextPrice)

PoisonData ==
    { [m |-> "qsd", p_len |-> 2, n |-> SYMBOL, lp |-> p, volume |-> 2] : p \in {1, 3, TextPrice} }

\* in the rollover branch, after candle_window.append(current_candle), the
\* argument of push_to_clients raises
RolloverRaises == current_candle # None /\ FormatRaises(heap[current_candle])

\* handle_data from its first statement to the end of the with data_lock block,
\* or to the except clause when a statement raises
HandleDataLockedRaising(data) ==
    /\ ws_pc = "idle"
    /\ Accepted(data)
    /\ LET price    == data.lp
           volume   == data.volume
           interval == get_chart_timeframe_interval(now)
       IN  IF StartsNewCandle(interval) /\ RolloverRaises
           THEN \* appended, then the exception: nothing after line 236 runs
                /\ candle_window' = DequeAppend(candle_window, current_candle)
                /\ UNCHANGED << heap, current_candle, current_interval, hubVars, hdVars,
                                published, folded, folded_vol, folded_conn,
                                last_tick_time, crossings >>
           ELSE IF ~StartsNewCandle(interval) /\ CompareRaises(heap[current_candle].high, price)
           THEN \* max() raises before anything is assigned
                UNCHANGED << aggVars, hubVars, hdVars, published, folded, folded_vol,
                             folded_conn, last_tick_time, crossings >>
           ELSE /\ IF StartsNewCandle(interval)
                   THEN /\ IF current_candle # None
                           THEN /\ candle_window' = DequeAppend(candle_window, current_candle)
                                /\ push_to_clients([type   |-> "candle_final",
                                                    candle |-> format_candle_for_client(heap[current_candle])])
                                /\ published' = << [type   |-> "candle_final",
                                                    candle |-> format_candle_for_client(heap[current_candle])] >>
                           ELSE /\ UNCHANGED << candle_window, hubVars >>
                                /\ published' = << >>
                        /\ heap' = Append(heap, NewCandle(interval, price, volume))
                        /\ current_candle' = Len(heap) + 1
                        /\ current_interval' = interval
                        /\ folded' = << price >>
                        /\ folded_vol' = << volume >>
                        /\ folded_conn' = << attempts >>
                   ELSE /\ heap' = [heap EXCEPT ![current_candle] = UpdateCandle(@, price, volume)]
                        /\ folded' = Append(folded, price)
                        /\ folded_vol' = Append(folded_vol, volume)
                        /\ folded_conn' = Append(folded_conn, attempts)
                        /\ published' = << >>
                        /\ UNCHANGED << candle_window, current_candle, current_interval, hubVars >>
                /\ hd_copy' = heap'[current_candle']
                /\ hd_price' = price
                /\ hd_data' = data
                /\ ws_pc' = "push_update"
                /\ crossings' = IF last_tick_time # None
                                   /\ FloorBucket(now) # FloorBucket(last_tick_time)
                                THEN crossings + 1 ELSE crossings
                /\ last_tick_time' = now
    /\ ticks' = ticks + 1
    /\ UNCHANGED << clockVars, cfgVars, sseVars, pricesVars >>

\* the candle_update push of handle_data, or the except clause when
\* format_candle_for_client(candle_copy) raises
HandleDataPushUpdateRaising ==
    /\ ws_pc = "push_update"
    /\ IF FormatRaises(hd_copy)
       THEN /\ ws_pc' = "idle"
            /\ UNCHANGED << clockVars, cfgVars, aggVars, hd_copy, hd_price, hd_data, hubVars,
                            sseVars, pricesVars, tickHist >>
       ELSE HandleDataPushUpdate

InitPoison == InitCommon

NextPoison ==
    \/ \E d \in ClockSteps :
          now + d < 60 * timeframe_minute * (MaxPoisonBuckets + 1) /\ ClockAdvance(d)
    \/ \E data \in PoisonData : ticks < MaxPoisonTicks /\ HandleDataLockedRaising(data)
    \/ HandleDataPushUpdateRaising
    \/ HandleDataPushTicker

SpecPoison == InitPoison /\ [][NextPoison]_vars

\* no candle object stands twice in candle_window
NoCandleTwice ==
    \A i, j \in 1..Len(candle_window) : i # j => candle_window[i] # candle_window[j]

\* a step that appends the in-progress candle to candle_window also replaces it
\* by the candle of the new bucket
RolloverWhole ==
    candle_window' # candle_window =>
        /\ current_candle' # current_candle
        /\ current_interval' = get_chart_timeframe_interval(now)
        /\ heap'[current_candle'].timestamp = current_interval'

\* C40, as stated: a rollover is all or nothing, a failure of the candle_final
\* event included, and no candle is appended to candle_window twice
C40_RolloverAtomic == []NoCandleTwice /\ [][RolloverWhole]_vars

\* the part that holds: a rollover whose candle_final event can be built is whole
C40_RolloverWholeUnlessRaises == [][~RolloverRaises => RolloverWhole]_vars

====
